---- MODULE Spec2Model ----
(***************************************************************************)
(* daw-mcp: the correlated request channel (DAWClient), the batch          *)
(* handlers that drive it, and the auto-scene-creation policy.             *)
(*                                                                         *)
(* The Node.js event loop is modelled as run-to-completion steps: one      *)
(* action is one callback (a socket event, a timer, a write callback, an   *)
(* incoming tool call) together with the promise continuations it makes    *)
(* runnable inside DAWClient.  A handler that awaits a send() resumes in a *)
(* microtask, so no event callback runs while a handler is Runnable.       *)
(***************************************************************************)
EXTENDS Integers, Sequences, FiniteSets, TLC

\* ------------------------------------------------------------------ bounds
MaxCalls == 2      \* send() invocations made by independent callers
MaxSockets == 2    \* net.Socket objects one channel creates (connect() calls)
MaxAnswers == 1    \* response frames the backend emits for one request it received
MaxItems == 2      \* length of the list a batch tool is called with
MaxCount == 2      \* free slots one findEmptySlotsWithAutoCreate call asks for
MaxToolCalls == 2  \* tool calls the server takes one after the other
MaxIndex == 60     \* largest track or slot number converted
MaxFrames == 2     \* lines the backend writes on one connection
MaxReferences == 5 \* references to a DAW client made through the manager
MaxRequests == 4    \* requests sent over the two channels side by side
MaxLines == 3       \* lines a client writes on one connection to the extension

\* The scene counts the backend reports.
SceneCounts == {1, 2}

\* ------------------------------------------------------------------- state
VARIABLES
  requestId,        \* DAWClient.requestId
  pendingRequests,  \* DAWClient.pendingRequests: id string -> the call whose resolve/reject it holds
  socket,           \* DAWClient.socket: 0 is null, else an index into sockets
  sockets,          \* every net.Socket created by connect(), in creation order
  calls,            \* every send() invocation, in invocation order: its promise and request
  timers,           \* ids whose setTimeout callback has not run yet, in the order armed
  tool,             \* the handler a tool call is running, "none" when there is none
  daw,              \* ctx.daw of that call
  args,             \* ctx.args of that call
  pc,               \* the await the handler is suspended at
  awaiting,         \* the send() call the handler awaits, 0 when none
  loc,              \* the handler's local variables
  result,           \* what the handler returned
  config,           \* the loaded Config (defaultDaw)
  backend,          \* the DAW side: which extensions answer, tracks, scenes, clips, selection
  toolCalls,        \* tool calls the server has taken so far
  inbound,          \* the characters the backend has written that no 'data' event has delivered yet
  buffer,           \* DAWClient.buffer: the characters received after the last newline
  dataLog,          \* every line handleData has split off, in order, with what became of it
  clients,          \* DAWClientManager.clients: DAW type -> index into clientObjects
  clientObjects,    \* every DAWClient constructed by the manager, in construction order
  extension         \* MCPServer.handleClient of the Bitwig extension on one connection

chanVars == <<requestId, pendingRequests, socket, sockets, calls, timers>>
envVars == <<config, backend, toolCalls>>
dataVars == <<inbound, buffer, dataLog>>
regVars == <<clients, clientObjects>>
procVars == <<tool, daw, args, pc, awaiting, loc, result, config, backend, toolCalls>>
vars == <<requestId, pendingRequests, socket, sockets, calls, timers,
          tool, daw, args, pc, awaiting, loc, result, config, backend, toolCalls,
          inbound, buffer, dataLog, clients, clientObjects, extension>>

\* A promise that has neither been resolved nor rejected.
Unsettled == {"connecting", "pending"}

\* String(n): the decimal digits of n, most significant first.
RECURSIVE String(_)
String(n) == IF n < 10 THEN <<n>> ELSE Append(String(n \div 10), n % 10)

\* Map.set / Map.delete on pendingRequests.
MapSet(m, k, v) == [x \in DOMAIN m \cup {k} |-> IF x = k THEN v ELSE m[x]]
MapDelete(m, k) == [x \in DOMAIN m \ {k} |-> m[x]]

\* The resolve / reject closures of call c: the first settlement wins, later
\* invocations leave the promise as it is; every invocation is counted.
Resolve(cs, c, v) ==
  [cs EXCEPT ![c].st = IF @ \in Unsettled THEN "resolved" ELSE @,
             ![c].out = IF cs[c].st \in Unsettled THEN v ELSE @,
             ![c].resolves = @ + 1]
Reject(cs, c, e) ==
  [cs EXCEPT ![c].st = IF @ \in Unsettled THEN "rejected" ELSE @,
             ![c].out = IF cs[c].st \in Unsettled THEN e ELSE @,
             ![c].rejects = @ + 1]

\* isConnected(): socket !== null && !socket.destroyed
isConnected ==
  /\ socket # 0
  /\ sockets[socket].state \in {"connecting", "open"}

NewCall(owner, method, arg) ==
  [owner |-> owner, method |-> method, arg |-> arg, st |-> "connecting",
   id |-> <<>>, sock |-> 0, wr |-> "none", out |-> <<"none">>,
   resolves |-> 0, rejects |-> 0, answers |-> 0]

\* send(), after the connection is there: allocate the id, register the
\* pending entry, write the frame, arm the timer.  this.socket is read at the
\* write; when it is null the write throws inside the promise executor, which
\* rejects the promise after the entry was registered and before the timer is
\* armed.
SendRequest(cs, c) ==
  LET n == requestId + 1
      id == String(n)
      withId == [cs EXCEPT ![c].id = id]
  IN /\ requestId' = n
     /\ pendingRequests' = MapSet(pendingRequests, id, c)
     /\ IF socket = 0
          THEN /\ calls' = Reject(withId, c, <<"TypeError">>)
               /\ timers' = timers
          ELSE /\ calls' = [withId EXCEPT ![c].st = "pending",
                                          ![c].sock = socket,
                                          ![c].wr = "queued"]
               /\ timers' = Append(timers, id)

\* connect(): a new socket replaces this.socket; its handlers belong to call c.
connect(c) ==
  /\ Len(sockets) < MaxSockets
  /\ sockets' = Append(sockets, [state |-> "connecting", errPending |-> FALSE, by |-> c])
  /\ socket' = Len(sockets) + 1

\* send(method, params) invoked by `owner`.
DoSend(owner, method, arg) ==
  LET c == Len(calls) + 1
      cs == Append(calls, NewCall(owner, method, arg))
  IN IF isConnected
       THEN /\ SendRequest(cs, c)
            /\ UNCHANGED <<socket, sockets>>
       ELSE /\ connect(c)
            /\ calls' = [cs EXCEPT ![c].sock = Len(sockets) + 1]
            /\ UNCHANGED <<requestId, pendingRequests, timers>>

\* A handleResponse that settles the oldest pending entry, whatever id the
\* response carries.
handleResponse_oldestPending(pending, cs, response) ==
  IF DOMAIN pending # {}
    THEN LET c == CHOOSE x \in {pending[i] : i \in DOMAIN pending} :
                    \A i \in DOMAIN pending : x <= pending[i]
         IN [pending |-> MapDelete(pending, cs[c].id),
             calls |-> IF response.kind = "error"
                         THEN Reject(cs, c, response.body.message)
                         ELSE Resolve(cs, c, response.body)]
    ELSE [pending |-> pending, calls |-> cs]

\* A handleResponse that rejects every failed request with one fixed text.
handleResponse_genericMessage(pending, cs, response) ==
  IF response.id \in DOMAIN pending
    THEN LET c == pending[response.id]
         IN [pending |-> MapDelete(pending, response.id),
             calls |-> IF response.kind = "error"
                         THEN Reject(cs, c, <<"Request failed">>)
                         ELSE Resolve(cs, c, response.body)]
    ELSE [pending |-> pending, calls |-> cs]

\* handleResponse(response) with the pending map and the calls as they are
\* when it is called: the pending map and the calls after it ran.
handleResponse(pending, cs, response) ==
  IF response.id \in DOMAIN pending
    THEN LET c == pending[response.id]
         IN [pending |-> MapDelete(pending, response.id),
             calls |-> IF response.kind = "error"
                         THEN Reject(cs, c, response.body.message)
                         ELSE Resolve(cs, c, response.body)]
    ELSE [pending |-> pending, calls |-> cs]

\* A timeout callback that writes the request once more instead of giving
\* it up.
OnTimeout_resends(id) ==
  IF id \in DOMAIN pendingRequests
    THEN /\ pendingRequests' = pendingRequests
         /\ calls' = [calls EXCEPT ![pendingRequests[id]].wr = "queued"]
    ELSE UNCHANGED <<pendingRequests, calls>>

\* A timeout callback that gives up every outstanding request of the channel.
OnTimeout_clearsMap(id) ==
  IF id \in DOMAIN pendingRequests
    THEN /\ pendingRequests' = [x \in {} |-> 0]
         /\ calls' = Reject(calls, pendingRequests[id], <<"Request timeout">>)
    ELSE UNCHANGED <<pendingRequests, calls>>

\* A timeout callback that rejects and leaves the entry in the map.
OnTimeout_keepsEntry(id) ==
  IF id \in DOMAIN pendingRequests
    THEN /\ pendingRequests' = pendingRequests
         /\ calls' = Reject(calls, pendingRequests[id], <<"Request timeout">>)
    ELSE UNCHANGED <<pendingRequests, calls>>

\* The setTimeout callback of the request with this id.
OnTimeout(id) ==
  IF id \in DOMAIN pendingRequests
    THEN /\ pendingRequests' = MapDelete(pendingRequests, id)
         /\ calls' = Reject(calls, pendingRequests[id], <<"Request timeout">>)
    ELSE UNCHANGED <<pendingRequests, calls>>

\* The socket.write callback of call c, invoked with an error.
OnWriteError(c) ==
  /\ pendingRequests' = MapDelete(pendingRequests, calls[c].id)
  /\ calls' = [Reject(calls, c, <<"write error">>) EXCEPT ![c].wr = "failed"]

\* What the backend may answer to the request (id, method, params) it
\* received: the result payloads of the methods whose result the bridge reads,
\* an acknowledgement naming the request for the others; or an error message.
ResultsOf(id, method, arg) ==
  CASE method = "clip.getSelection" ->
         {[trackIndex |-> 0, slotIndex |-> 0], [trackIndex |-> -1, slotIndex |-> -1]}
    [] method = "clip.findEmptySlots" ->
         {[emptySlots |-> [k \in 1..f |-> arg.startSlot + k - 1], found |-> f,
           requested |-> arg.count, sceneCount |-> sc] :
            f \in 0..arg.count, sc \in SceneCounts}
    [] method = "clip.createScene" ->
         {[success |-> b, created |-> IF b THEN arg.count ELSE 0] : b \in BOOLEAN}
    [] OTHER -> {<<"re", method, id>>}
\* The error objects a backend answers with: createError(response, code,
\* message), the message naming the method and the request it is about.
ErrorsOf(id, method, arg) == {[code |-> -32602, message |-> <<"err", method, id>>]}

\* An await that does not wait for the commands a loop sends.
Settled_loopNotAwaited(c) == calls[c].st \notin Unsettled \/ calls[c].owner[2] >= 1

\* `await` on the promise of call c: the handler resumes once it has settled.
Settled(c) == calls[c].st \notin Unsettled

\* A handler continuation is waiting in the microtask queue: it runs before
\* any further event callback.
Runnable == awaiting # 0 /\ Settled(awaiting)

\* ----------------------------------------------------------------- actions
\* An independent caller invokes send().
Send ==
  /\ UNCHANGED dataVars
  /\ UNCHANGED <<regVars, extension>>
  /\ ~Runnable
  /\ Len(calls) < MaxCalls
  /\ DoSend(<<"direct", 0>>, "echo", Len(calls) + 1)
  /\ UNCHANGED procVars

\* 'connect' event of socket s: resolves connect(); the send() that awaited
\* it resumes in the same turn.
SocketConnect(s) ==
  /\ UNCHANGED dataVars
  /\ UNCHANGED <<regVars, extension>>
  /\ ~Runnable
  /\ sockets[s].state = "connecting"
  /\ sockets' = [sockets EXCEPT ![s].state = "open"]
  /\ IF calls[sockets[s].by].st = "connecting"
       THEN SendRequest(calls, sockets[s].by)
       ELSE UNCHANGED <<requestId, pendingRequests, calls, timers>>
  /\ UNCHANGED socket
  /\ UNCHANGED procVars

\* Socket s is destroyed: by an error (refused, reset, failed write) or, once
\* open, by the peer closing.  socket.destroyed is true from here on; the
\* 'error' and 'close' events are emitted later.
SocketDestroy(s, err) ==
  /\ UNCHANGED dataVars
  /\ UNCHANGED <<regVars, extension>>
  /\ ~Runnable
  /\ sockets[s].state \in {"connecting", "open"}
  /\ sockets[s].state = "connecting" => err
  /\ sockets' = [sockets EXCEPT ![s].state = "destroyed", ![s].errPending = err]
  /\ UNCHANGED <<requestId, pendingRequests, socket, calls, timers>>
  /\ UNCHANGED procVars

\* 'error' event of the destroyed socket s: the handler rejects connect().
SocketError(s) ==
  /\ UNCHANGED dataVars
  /\ UNCHANGED <<regVars, extension>>
  /\ ~Runnable
  /\ sockets[s].state = "destroyed"
  /\ sockets[s].errPending
  /\ sockets' = [sockets EXCEPT ![s].errPending = FALSE]
  /\ calls' = IF calls[sockets[s].by].st = "connecting"
                THEN Reject(calls, sockets[s].by, <<"connect error">>)
                ELSE calls
  /\ UNCHANGED <<requestId, pendingRequests, socket, timers>>
  /\ UNCHANGED procVars

\* 'close' event of the destroyed socket s, after its 'error' event if it has
\* one: the handler sets this.socket = null.
SocketClose(s) ==
  /\ UNCHANGED dataVars
  /\ UNCHANGED <<regVars, extension>>
  /\ ~Runnable
  /\ sockets[s].state = "destroyed"
  /\ ~sockets[s].errPending
  /\ sockets' = [sockets EXCEPT ![s].state = "closed"]
  /\ socket' = 0
  /\ UNCHANGED <<requestId, pendingRequests, calls, timers>>
  /\ UNCHANGED procVars

\* The frame of call c leaves the socket and reaches the backend.
Flush(c) ==
  /\ UNCHANGED dataVars
  /\ UNCHANGED <<regVars, extension>>
  /\ ~Runnable
  /\ calls[c].wr = "queued"
  /\ sockets[calls[c].sock].state = "open"
  /\ calls' = [calls EXCEPT ![c].wr = "sent"]
  /\ UNCHANGED <<requestId, pendingRequests, socket, sockets, timers>>
  /\ UNCHANGED procVars

\* The write of call c fails: its socket was destroyed before the frame left.
WriteError(c) ==
  /\ UNCHANGED dataVars
  /\ UNCHANGED <<regVars, extension>>
  /\ ~Runnable
  /\ calls[c].wr = "queued"
  /\ sockets[calls[c].sock].state \in {"destroyed", "closed"}
  /\ OnWriteError(c)
  /\ UNCHANGED <<requestId, socket, sockets, timers>>
  /\ UNCHANGED procVars

\* The oldest armed timer fires (all timers of a channel have the same
\* duration, so they fire in the order they were armed).
Timeout ==
  /\ UNCHANGED dataVars
  /\ UNCHANGED <<regVars, extension>>
  /\ ~Runnable
  /\ timers # <<>>
  /\ timers' = Tail(timers)
  /\ OnTimeout(Head(timers))
  /\ UNCHANGED <<requestId, socket, sockets>>
  /\ UNCHANGED procVars

\* handleData on one complete frame from the backend: the answer to the
\* request of call c, sent on the connection it came in on, with a result or
\* an error.  Any received request may be answered, in any order and however
\* late; calls[c].answers counts the frames the backend has sent for it.
Respond(c, kind) ==
  /\ UNCHANGED dataVars
  /\ UNCHANGED <<regVars, extension>>
  /\ ~Runnable
  /\ calls[c].wr = "sent"
  /\ calls[c].answers < MaxAnswers
  /\ sockets[calls[c].sock].state = "open"
  /\ \E body \in IF kind = "error"
                    THEN ErrorsOf(calls[c].id, calls[c].method, calls[c].arg)
                    ELSE ResultsOf(calls[c].id, calls[c].method, calls[c].arg) :
       LET response == [id |-> calls[c].id, kind |-> kind, body |-> body]
           after == handleResponse(pendingRequests, calls, response)
       IN /\ pendingRequests' = after.pending
          /\ calls' = [after.calls EXCEPT ![c].answers = @ + 1]
  /\ UNCHANGED <<requestId, socket, sockets, timers>>
  /\ UNCHANGED procVars

Channel ==
  \/ \E s \in 1..Len(sockets) : SocketConnect(s)
  \/ \E s \in 1..Len(sockets), err \in BOOLEAN : SocketDestroy(s, err)
  \/ \E s \in 1..Len(sockets) : SocketError(s)
  \/ \E s \in 1..Len(sockets) : SocketClose(s)
  \/ \E c \in 1..Len(calls) : Flush(c)
  \/ \E c \in 1..Len(calls) : WriteError(c)
  \/ Timeout
  \/ \E c \in 1..Len(calls), kind \in {"result", "error"} : Respond(c, kind)

InitChannel ==
  /\ requestId = 0
  /\ pendingRequests = [x \in {} |-> 0]
  /\ socket = 0
  /\ sockets = <<>>
  /\ calls = <<>>
  /\ timers = <<>>
  /\ inbound = <<>>
  /\ buffer = <<>>
  /\ dataLog = <<>>
  /\ clients = [x \in {} |-> 0]
  /\ clientObjects = <<>>
  /\ extension = [in |-> <<>>, read |-> <<>>, messageBuilder |-> <<>>,
                  scheduled |-> <<>>, out |-> <<>>]

InitIdle ==
  /\ tool = "none"
  /\ daw = "bitwig"
  /\ args = <<>>
  /\ pc = "idle"
  /\ awaiting = 0
  /\ loc = <<>>
  /\ result = <<>>
  /\ config = [defaultDaw |-> "bitwig"]
  /\ backend = <<>>
  /\ toolCalls = 0

Init == InitChannel /\ InitIdle

Next ==
  \/ Send
  \/ Channel

Spec == Init /\ [][Next]_vars

\* ------------------------------------------------------------ inbound data
\* Text is a sequence of characters; LF is the newline.  A JSON text is
\* written with one character per lexical element.
LF == "LF"
DigitChars == <<"0", "1", "2", "3", "4", "5", "6", "7", "8", "9">>
Digits(id) == [k \in 1..Len(id) |-> DigitChars[id[k] + 1]]

\* JSON.stringify of a response object: its id and "result" or "error" (the
\* payload, which the id and the kind determine, is not written out).
Stringify(r) == <<"{">> \o Digits(r.id) \o <<r.kind, "}">>

\* The response objects a line can stand for: an answer, with a result or an
\* error, to the echo request with one of the ids 1 .. MaxCalls + 1.
Responses ==
  UNION {{[id |-> String(n), kind |-> "result", body |-> b] :
            b \in ResultsOf(String(n), "echo", 0)} \cup
         {[id |-> String(n), kind |-> "error", body |-> b] :
            b \in ErrorsOf(String(n), "echo", 0)} : n \in 1..(MaxCalls + 1)}

\* line.trim()
RECURSIVE Trim(_)
Trim(line) ==
  IF line = <<>> THEN line
  ELSE IF Head(line) = " " THEN Trim(Tail(line))
  ELSE IF line[Len(line)] = " " THEN Trim(SubSeq(line, 1, Len(line) - 1))
  ELSE line

\* JSON.parse(line): the value (a response object, null, a number), or a
\* SyntaxError.  A value that is no object has no properties: its id reads as
\* undefined, which is no key of the pending map.
JSONParse(line) ==
  LET text == Trim(line)
      none == [id |-> <<>>, kind |-> "result", body |-> <<>>]
  IN IF \E r \in Responses : Stringify(r) = text
       THEN [threw |-> FALSE, type |-> "object",
             value |-> CHOOSE r \in Responses : Stringify(r) = text]
     ELSE IF text = <<"null">>
       THEN [threw |-> FALSE, type |-> "null", value |-> none]
     ELSE IF text # <<>> /\ \A k \in 1..Len(text) : \E d \in 1..10 : text[k] = DigitChars[d]
       THEN [threw |-> FALSE, type |-> "number", value |-> none]
     ELSE [threw |-> TRUE, type |-> "SyntaxError", value |-> none]

\* text.split('\n')
RECURSIVE Split(_)
Split(text) ==
  IF \E k \in 1..Len(text) : text[k] = LF
    THEN LET k == CHOOSE j \in 1..Len(text) :
                    text[j] = LF /\ \A i \in 1..(j - 1) : text[i] # LF
         IN <<SubSeq(text, 1, k - 1)>> \o Split(SubSeq(text, k + 1, Len(text)))
    ELSE <<text>>

\* The body of the try block for one line: JSON.parse, then handleResponse.
\* Reading response.id of null throws a TypeError.
TryLine(pending, cs, line) ==
  LET parsed == JSONParse(line)
  IN IF parsed.threw \/ parsed.type = "null"
       THEN [threw |-> TRUE, pending |-> pending, calls |-> cs]
       ELSE [threw |-> FALSE] @@ handleResponse(pending, cs, parsed.value)

\* A loop body without the try/catch: the exception leaves handleData.
AfterLine_uncaught(threw) == IF threw THEN "escaped" ELSE "handled"

\* What became of a line whose try block threw or did not: the catch logs the
\* line and the loop goes on.
AfterLine(threw) == IF threw THEN "caught" ELSE "handled"

\* The for loop of handleData over the complete lines of data event n.
RECURSIVE HandleLines(_, _, _, _, _)
HandleLines(pending, cs, lines, log, n) ==
  IF lines = <<>> THEN [pending |-> pending, calls |-> cs, log |-> log]
  ELSE IF Trim(Head(lines)) = <<>>
    THEN HandleLines(pending, cs, Tail(lines),
                     Append(log, [line |-> Head(lines), chunk |-> n, outcome |-> "blank"]), n)
  ELSE LET t == TryLine(pending, cs, Head(lines))
           entry == [line |-> Head(lines), chunk |-> n, outcome |-> AfterLine(t.threw)]
       IN IF entry.outcome = "escaped"
            THEN [pending |-> pending, calls |-> cs, log |-> Append(log, entry)]
            ELSE HandleLines(t.pending, t.calls, Tail(lines), Append(log, entry), n)

\* handleData(data): the lines of buffer + data are handled, what follows the
\* last newline stays in the buffer.
handleData(data) ==
  \E pieces \in {Split(buffer \o data)} :
    \E after \in {HandleLines(pendingRequests, calls, SubSeq(pieces, 1, Len(pieces) - 1),
                              dataLog,
                              IF dataLog = <<>> THEN 1 ELSE dataLog[Len(dataLog)].chunk + 1)} :
      /\ buffer' = pieces[Len(pieces)]
      /\ pendingRequests' = after.pending
      /\ calls' = after.calls
      /\ dataLog' = after.log

\* The lines a backend may write that answer nothing: text that is no JSON,
\* null, a number, a blank line, and a response with an id the channel never
\* allocated.
Uncorrelatable ==
  CHOOSE r \in Responses : r.id = String(MaxCalls + 1) /\ r.kind = "result"
MalformedLines ==
  {<<"x">>, <<"null">>, <<"7">>, <<" ">>, Stringify(Uncorrelatable)}

\* The newlines in a text, and the lines written on the connection so far.
Newlines(text) == Cardinality({k \in 1..Len(text) : text[k] = LF})
LinesWritten == Len(dataLog) + Newlines(inbound)

\* The backend writes a line that answers nothing.
EmitMalformed(line) ==
  /\ UNCHANGED <<regVars, extension>>
  /\ socket # 0
  /\ sockets[socket].state = "open"
  /\ LinesWritten < MaxFrames
  /\ inbound' = inbound \o line \o <<LF>>
  /\ UNCHANGED <<chanVars, buffer, dataLog>>
  /\ UNCHANGED procVars

\* The backend writes its answer to the request of call c, which it received.
EmitResponse(c, kind) ==
  /\ UNCHANGED <<regVars, extension>>
  /\ calls[c].wr = "sent"
  /\ sockets[calls[c].sock].state = "open"
  /\ LinesWritten < MaxFrames
  /\ \E r \in Responses :
       /\ r.id = calls[c].id
       /\ r.kind = kind
       /\ inbound' = inbound \o Stringify(r) \o <<LF>>
  /\ calls' = [calls EXCEPT ![c].answers = @ + 1]
  /\ UNCHANGED <<requestId, pendingRequests, socket, sockets, timers, buffer, dataLog>>
  /\ UNCHANGED procVars

\* The bytes on the wire are UTF-8: a character of the ASCII range is one
\* byte, written as the character; U+00E9 is the two bytes 0xC3 0xA9 and the
\* replacement character U+FFFD the three bytes 0xEF 0xBF 0xBD.
RECURSIVE Encode(_)
Encode(text) ==
  IF text = <<>> THEN <<>>
  ELSE (CASE Head(text) = "U+00E9" -> <<"0xC3", "0xA9">>
          [] Head(text) = "U+FFFD" -> <<"0xEF", "0xBF", "0xBD">>
          [] OTHER -> <<Head(text)>>) \o Encode(Tail(text))

\* data.toString(): the chunk decoded on its own.  A lead byte without its
\* continuation byte in the chunk, and a continuation byte without its lead
\* byte, each become U+FFFD.
RECURSIVE toString(_)
toString(bytes) ==
  IF bytes = <<>> THEN <<>>
  ELSE IF Head(bytes) = "0xC3"
    THEN IF Len(bytes) >= 2 /\ bytes[2] = "0xA9"
           THEN <<"U+00E9">> \o toString(SubSeq(bytes, 3, Len(bytes)))
           ELSE <<"U+FFFD">> \o toString(Tail(bytes))
  ELSE IF Head(bytes) = "0xA9" THEN <<"U+FFFD">> \o toString(Tail(bytes))
  ELSE <<Head(bytes)>> \o toString(Tail(bytes))

\* The backend writes a line of text with a character outside ASCII in it, as
\* a clip or track name has it.
TextLines == {<<"U+00E9">>, <<"x", "U+00E9">>}
EmitText(line) ==
  /\ UNCHANGED <<regVars, extension>>
  /\ socket # 0
  /\ sockets[socket].state = "open"
  /\ LinesWritten < MaxFrames
  /\ inbound' = inbound \o Encode(line) \o <<LF>>
  /\ UNCHANGED <<chanVars, buffer, dataLog>>
  /\ UNCHANGED procVars

\* 'data' event: the first n bytes in flight arrive as one chunk.
Data(n) ==
  /\ UNCHANGED <<regVars, extension>>
  /\ ~Runnable
  /\ n \in 1..Len(inbound)
  /\ inbound' = SubSeq(inbound, n + 1, Len(inbound))
  /\ handleData(toString(SubSeq(inbound, 1, n)))
  /\ UNCHANGED <<requestId, socket, sockets, timers>>
  /\ UNCHANGED procVars

DataNext ==
  \/ Send
  \/ \E s \in 1..Len(sockets) : SocketConnect(s)
  \/ \E c \in 1..Len(calls) : Flush(c)
  \/ \E line \in MalformedLines : EmitMalformed(line)
  \/ \E c \in 1..Len(calls), kind \in {"result", "error"} : EmitResponse(c, kind)
  \/ \E n \in 1..Len(inbound) : Data(n)

DataSpec == Init /\ [][DataNext]_vars

\* The stream with text outside ASCII in it.
FramingNext ==
  \/ DataNext
  \/ \E line \in TextLines : EmitText(line)

FramingSpec == Init /\ [][FramingNext]_vars

\* ---------------------------------------------------------- batch handlers
\* An index argument the caller left out (the public indices are 1-based).
Undefined == 0

toInternal(index) == index - 1

\* A toUser that returns its argument.
toUser_unchanged(index) == index

toUser(index) == index + 1

\* Lists of at most n elements of S.
Lists(S, n) == UNION {[1..k -> S] : k \in 0..n}

\* [...a].sort((a, b) => b - a)
RECURSIVE SortDescending(_)
SortDescending(a) ==
  IF a = <<>> THEN <<>>
  ELSE LET m == CHOOSE k \in 1..Len(a) : \A l \in 1..Len(a) : a[k] >= a[l]
       IN <<a[m]>> \o SortDescending(SubSeq(a, 1, m - 1) \o SubSeq(a, m + 1, Len(a)))

NoteTools == {"batch_set_notes", "batch_move_notes", "batch_operations"}
TrackTools == {"batch_set_track_properties", "batch_delete_tracks"}
BatchTools == NoteTools \cup TrackTools

\* The lists the tools are called with: notes and moves (times in hundredths
\* of a beat), operations, track property records (props: the properties that
\* are not undefined; their values are not modelled), 1-based track numbers.
ItemsOf(t) ==
  CASE t = "batch_set_notes" -> {[x |-> 30, y |-> 60]}
    [] t = "batch_move_notes" -> {[x |-> 25, y |-> 60, dx |-> 25, dy |-> 0]}
    [] t = "batch_operations" -> {[action |-> "transpose_clip", semitones |-> 1]}
    [] t = "batch_set_track_properties" -> {[index |-> 1, props |-> {"name", "solo"}],
                                            [index |-> 2, props |-> {}],
                                            [index |-> 3, props |-> {"mute"}]}
    [] t = "batch_delete_tracks" -> {1, 2, 3}

\* A list that names no element twice.
Distinct(l) == \A k, m \in 1..Len(l) : k # m => l[k] # l[m]

\* The arguments of a tool call.  A track tool names each track once.  The
\* clip of a note tool is given by its 1-based indices; batch_set_notes is
\* also called without them, for the selected clip.
ArgsOf(t) ==
  {[trackIndex |-> ti, slotIndex |-> ti, items |-> l] :
     ti \in (CASE t = "batch_set_notes" -> {Undefined, 1}
               [] t \in NoteTools \ {"batch_set_notes"} -> {1}
               [] OTHER -> {Undefined}),
     l \in {x \in Lists(ItemsOf(t), MaxItems) : t \in TrackTools => Distinct(x)}}

DawsOf(t) == IF t = "batch_set_notes" THEN {"bitwig", "ableton"} ELSE {"bitwig"}

\* The BatchResult the loop handlers return.
BatchResult(completed, errors) ==
  LET base == [success |-> Len(errors) = 0, completed |-> completed, failed |-> Len(errors)]
  IN IF Len(errors) > 0 THEN base @@ [errors |-> errors] ELSE base

\* gridResolution of the default configuration, and the step it gives in
\* hundredths of a beat (4 / gridResolution beats).
gridResolution == 16
getStepSize == 400 \div gridResolution

\* Math.round(beats / stepSize) * stepSize, for beats >= 0.
quantizeForBitwig(beats) == ((2 * beats + getStepSize) \div (2 * getStepSize)) * getStepSize

\* The notes batch_set_notes sends: quantized for Bitwig, as given for Ableton.
processedNotes(d, notes) ==
  IF d = "bitwig"
    THEN [k \in 1..Len(notes) |-> [notes[k] EXCEPT !.x = quantizeForBitwig(@)]]
    ELSE notes

\* op.field ?? default
OrDefault(op, field, default) == IF field \in DOMAIN op THEN op[field] ELSE default

\* The command one operation of batch_operations stands for.
operationCommand(op) ==
  CASE op.action = "set" ->
         [method |-> "clip.setNote",
          arg |-> [x |-> op.x, y |-> op.y, velocity |-> OrDefault(op, "velocity", 100),
                   duration |-> OrDefault(op, "duration", 25)]]
    [] op.action = "move" ->
         [method |-> "clip.moveNote",
          arg |-> [x |-> op.x, y |-> op.y, dx |-> OrDefault(op, "dx", 0),
                   dy |-> OrDefault(op, "dy", 0)]]
    [] op.action = "clear" ->
         [method |-> "clip.clearNote", arg |-> [x |-> op.x, y |-> op.y]]
    [] op.action = "transpose_clip" ->
         [method |-> "clip.transpose", arg |-> [semitones |-> OrDefault(op, "semitones", 0)]]

\* The commands one track record stands for, in the order they are sent.

trackPropertyCommands(track) ==
  LET order == <<"name", "volume", "mute", "solo">>
      command == [name |-> "track.setName", volume |-> "track.setVolume",
                  mute |-> "track.setMute", solo |-> "track.setSolo"]
      present(p) == p \in track.props
  IN [k \in 1..Len(SelectSeq(order, present)) |->
        [method |-> command[SelectSeq(order, present)[k]],
         arg |-> [index |-> toInternal(track.index)]]]

\* The loop of a handler as a list of steps: the commands of step k and the
\* index its error entry is pushed with.
\*   batch_set_notes (bitwig), batch_move_notes, batch_operations: one command
\*   per element, index i;  batch_set_track_properties: one command per defined
\*   property, index i;  batch_delete_tracks: track.delete over sortedIndices,
\*   index toUser(sortedIndices[i]).
sortedIndices(trackIndices) ==
  SortDescending([k \in 1..Len(trackIndices) |-> toInternal(trackIndices[k])])

Work(t, a) ==
  CASE t = "batch_set_notes" ->
         [k \in 1..Len(a.items) |->
            [cmds |-> <<[method |-> "clip.setNote", arg |-> processedNotes("bitwig", a.items)[k]]>>,
             index |-> k - 1]]
    [] t = "batch_move_notes" ->
         [k \in 1..Len(a.items) |->
            [cmds |-> <<[method |-> "clip.moveNote", arg |-> a.items[k]]>>, index |-> k - 1]]
    [] t = "batch_operations" ->
         [k \in 1..Len(a.items) |->
            [cmds |-> <<operationCommand(a.items[k])>>, index |-> k - 1]]
    [] t = "batch_set_track_properties" ->
         [k \in 1..Len(a.items) |->
            [cmds |-> trackPropertyCommands(a.items[k]), index |-> k - 1]]
    [] t = "batch_delete_tracks" ->
         [k \in 1..Len(a.items) |->
            [cmds |-> <<[method |-> "track.delete",
                         arg |-> [index |-> sortedIndices(a.items)[k]]]>>,
             index |-> toUser(sortedIndices(a.items)[k])]]

\* Steps whose commands have all been sent count as completed and the loop
\* moves on: the position of the next command to send.
RECURSIVE NextCommand(_, _, _, _)
NextCommand(work, i, j, completed) ==
  IF i <= Len(work) /\ j > Len(work[i].cmds)
    THEN NextCommand(work, i + 1, 1, completed + 1)
    ELSE [i |-> i, j |-> j, completed |-> completed]

\* A loop that returns at the first failure instead of going on.
Loop_stopAtFirstError(t, a, i, j, completed, errors) ==
  LET work == Work(t, a)
      at == NextCommand(work, i, j, completed)
  IN IF at.i > Len(work) \/ errors # <<>>
       THEN /\ pc' = "done"
            /\ awaiting' = 0
            /\ loc' = [i |-> at.i, j |-> at.j, completed |-> at.completed, errors |-> errors]
            /\ result' = BatchResult(at.completed, errors)
            /\ UNCHANGED chanVars
       ELSE /\ DoSend(<<"batch", at.i>>, work[at.i].cmds[at.j].method, work[at.i].cmds[at.j].arg)
            /\ pc' = "loop"
            /\ awaiting' = Len(calls) + 1
            /\ loc' = [i |-> at.i, j |-> at.j, completed |-> at.completed, errors |-> errors]
            /\ result' = result

\* The for loop, from command j of step i to its next await or to the return.
Loop(t, a, i, j, completed, errors) ==
  LET work == Work(t, a)
      at == NextCommand(work, i, j, completed)
  IN IF at.i > Len(work)
       THEN /\ pc' = "done"
            /\ awaiting' = 0
            /\ loc' = [i |-> at.i, j |-> at.j, completed |-> at.completed, errors |-> errors]
            /\ result' = BatchResult(at.completed, errors)
            /\ UNCHANGED chanVars
       ELSE /\ DoSend(<<"batch", at.i>>, work[at.i].cmds[at.j].method, work[at.i].cmds[at.j].arg)
            /\ pc' = "loop"
            /\ awaiting' = Len(calls) + 1
            /\ loc' = [i |-> at.i, j |-> at.j, completed |-> at.completed, errors |-> errors]
            /\ result' = result

\* The handler throws: the tool call ends with this error.
Throw(message) ==
  /\ pc' = "thrown"
  /\ awaiting' = 0
  /\ result' = [thrown |-> message]
  /\ UNCHANGED <<chanVars, loc>>

\* The TypeError of the first use of the list argument when the caller left
\* it out: `for (const rawNote of rawNotes)`, `moves.length`,
\* `operations.length`, `tracks.length`, `trackIndices.map`.
MissingList(t) ==
  CASE t = "batch_set_notes" -> <<"rawNotes is not iterable">>
    [] t = "batch_delete_tracks" -> <<"Cannot read properties of undefined (reading 'map')">>
    [] OTHER -> <<"Cannot read properties of undefined (reading 'length')">>

\* The handler body after selectClipIfNeeded.  Ableton's batch_set_notes sends
\* the whole list in one clip.setNotes; everything else loops.
Body(t, d, a) ==
  IF "items" \notin DOMAIN a
    THEN Throw(MissingList(t))
    ELSE IF t = "batch_set_notes" /\ d = "ableton"
      THEN /\ DoSend(<<"batch", -1>>, "clip.setNotes", [notes |-> processedNotes(d, a.items)])
           /\ pc' = "setNotes"
           /\ awaiting' = Len(calls) + 1
           /\ UNCHANGED <<loc, result>>
      ELSE Loop(t, a, 1, 1, 0, <<>>)

\* The error resolveClipIndices throws when nothing is selected.
NoSlotSelected == <<"No clip slot selected. Select a slot in DAW or provide trackIndex/slotIndex (1-based).">>

\* A check that takes every reported selection for a clip slot.
NothingSelected_never(selection) == FALSE

\* selection.trackIndex === -1 || selection.slotIndex === -1
NothingSelected(selection) == selection.trackIndex = -1 \/ selection.slotIndex = -1

\* A selectClipIfNeeded that selects as soon as one index is given.
selectClipIfNeeded_eitherIndex(a) ==
  /\ IF a.trackIndex # Undefined \/ a.slotIndex # Undefined
       THEN /\ DoSend(<<"batch", 0>>, "clip.select",
                      [trackIndex |-> toInternal(a.trackIndex),
                       slotIndex |-> toInternal(a.slotIndex)])
            /\ pc' = "select"
       ELSE /\ DoSend(<<"batch", 0>>, "clip.getSelection", <<>>)
            /\ pc' = "getSelection"
  /\ awaiting' = Len(calls) + 1
  /\ UNCHANGED <<loc, result>>

\* selectClipIfNeeded, up to its first await: with both indices it will send
\* clip.select for them; otherwise resolveClipIndices asks for the selection.
selectClipIfNeeded(a) ==
  /\ IF a.trackIndex # Undefined /\ a.slotIndex # Undefined
       THEN /\ DoSend(<<"batch", 0>>, "clip.select",
                      [trackIndex |-> toInternal(a.trackIndex),
                       slotIndex |-> toInternal(a.slotIndex)])
            /\ pc' = "select"
       ELSE /\ DoSend(<<"batch", 0>>, "clip.getSelection", <<>>)
            /\ pc' = "getSelection"
  /\ awaiting' = Len(calls) + 1
  /\ UNCHANGED <<loc, result>>

\* A selectClipIfNeeded that goes on without waiting after clip.select.
startSelectionDelay_skipped == Body(tool, daw, args)

\* await new Promise(resolve => setTimeout(resolve, selectionDelayMs))
startSelectionDelay ==
  /\ pc' = "selectionDelay"
  /\ awaiting' = 0
  /\ UNCHANGED <<chanVars, loc, result>>

\* A tool call arrives: the handler runs to its first await.
BatchStart(t, d, a) ==
  /\ UNCHANGED dataVars
  /\ UNCHANGED <<regVars, extension>>
  /\ UNCHANGED envVars
  /\ tool = "none"
  /\ tool' = t
  /\ daw' = d
  /\ args' = a
  /\ IF t \in NoteTools THEN selectClipIfNeeded(a) ELSE Body(t, d, a)

\* The awaited send() has settled: the handler runs on to its next await.
BatchResume ==
  /\ UNCHANGED dataVars
  /\ UNCHANGED <<regVars, extension>>
  /\ UNCHANGED envVars
  /\ tool \in BatchTools
  /\ awaiting # 0
  /\ Settled(awaiting)
  /\ UNCHANGED <<tool, daw, args>>
  /\ LET call == calls[awaiting]
         failed == call.st = "rejected"
     IN CASE pc = "getSelection" ->
               IF failed THEN Throw(call.out)
               ELSE IF NothingSelected(call.out)
                 THEN Throw(NoSlotSelected)
                 ELSE Body(tool, daw, args)
          [] pc = "select" ->
               IF failed THEN Throw(call.out)
               ELSE startSelectionDelay
          [] pc = "setNotes" ->
               /\ pc' = "done"
               /\ awaiting' = 0
               /\ result' =
                    IF failed
                      THEN [success |-> FALSE, completed |-> 0, failed |-> Len(args.items),
                            errors |-> <<[index |-> 0, error |-> call.out]>>]
                      ELSE [success |-> TRUE, completed |-> Len(args.items), failed |-> 0]
               /\ UNCHANGED <<chanVars, loc>>
          [] pc = "loop" ->
               IF failed
                 THEN Loop(tool, args, loc.i + 1, 1, loc.completed,
                           Append(loc.errors,
                                  [index |-> Work(tool, args)[loc.i].index, error |-> call.out]))
                 ELSE Loop(tool, args, loc.i, loc.j + 1, loc.completed, loc.errors)

\* The selection delay of selectClipIfNeeded has elapsed.
SelectionDelay ==
  /\ UNCHANGED dataVars
  /\ UNCHANGED <<regVars, extension>>
  /\ UNCHANGED envVars
  /\ tool \in BatchTools
  /\ pc = "selectionDelay"
  /\ UNCHANGED <<tool, daw, args>>
  /\ Body(tool, daw, args)

BatchNext ==
  \/ \E t \in BatchTools : \E d \in DawsOf(t), a \in ArgsOf(t) : BatchStart(t, d, a)
  \/ BatchResume
  \/ SelectionDelay
  \/ Channel

BatchSpec == Init /\ [][BatchNext]_vars

\* Tool calls whose required list argument is left out, next to calls that
\* carry one element.
RequiredListTools == {"batch_set_notes", "batch_move_notes", "batch_delete_tracks"}

MissingArgsOf(t) ==
  {[trackIndex |-> ti, slotIndex |-> ti] :
     ti \in IF t \in NoteTools THEN {Undefined, 1} ELSE {Undefined}}
  \cup {a \in ArgsOf(t) : Len(a.items) = 1}

MissingNext ==
  \/ \E t \in RequiredListTools : \E d \in DawsOf(t), a \in MissingArgsOf(t) : BatchStart(t, d, a)
  \/ BatchResume
  \/ SelectionDelay
  \/ Channel

MissingSpec == Init /\ [][MissingNext]_vars

\* Note tools called for one item with the clip given by both indices, by
\* one of them, or by none.
PartialArgsOf(t) ==
  {[trackIndex |-> ti, slotIndex |-> si, items |-> <<item>>] :
     ti \in {Undefined, 2}, si \in {Undefined, 3}, item \in ItemsOf(t)}

PartialNext ==
  \/ \E t \in NoteTools : \E d \in DawsOf(t), a \in PartialArgsOf(t) : BatchStart(t, d, a)
  \/ BatchResume
  \/ SelectionDelay
  \/ Channel

PartialSpec == Init /\ [][PartialNext]_vars

\* ------------------------------------------- findEmptySlotsWithAutoCreate
AutoCreate == "findEmptySlotsWithAutoCreate"

\* return { ...emptyResult, scenesCreated }
Return(emptyResult, scenesCreated) ==
  /\ pc' = "done"
  /\ awaiting' = 0
  /\ result' = emptyResult @@ [scenesCreated |-> scenesCreated]
  /\ UNCHANGED <<chanVars, loc>>

\* findEmptySlots(dawManager, daw, trackIndex, startSlot, count)
findEmptySlots(a, n) ==
  DoSend(<<"auto", n>>, "clip.findEmptySlots",
         [trackIndex |-> a.trackIndex, startSlot |-> a.startSlot, count |-> a.count])

\* A shortfall that always asks for `count` scenes.
scenesNeeded_count(count, found) == count

\* const scenesNeeded = count - emptyResult.found
scenesNeeded(count, found) == count - found

\* The function is called: the first capacity query is sent.
AutoStart(count) ==
  /\ UNCHANGED dataVars
  /\ UNCHANGED <<regVars, extension>>
  /\ UNCHANGED envVars
  /\ tool = "none"
  /\ tool' = AutoCreate
  /\ daw' = daw
  /\ args' = [trackIndex |-> 0, startSlot |-> 0, count |-> count]
  /\ findEmptySlots([trackIndex |-> 0, startSlot |-> 0, count |-> count], 1)
  /\ pc' = "findEmptySlots"
  /\ awaiting' = Len(calls) + 1
  /\ loc' = [emptyResult |-> <<>>, scenesCreated |-> 0, trace |-> <<"query">>]
  /\ result' = result

\* The first query answered: enough slots, or one clip.createScene for the
\* shortfall.
OnFirstQuery(emptyResult) ==
  IF emptyResult.found < args.count
    THEN /\ DoSend(<<"auto", 2>>, "clip.createScene",
                   [count |-> scenesNeeded(args.count, emptyResult.found)])
         /\ pc' = "createScene"
         /\ awaiting' = Len(calls) + 1
         /\ loc' = [loc EXCEPT !.emptyResult = emptyResult, !.trace = Append(@, "expand")]
         /\ result' = result
    ELSE Return(emptyResult, 0)

\* A policy that re-queries right after the expansion, without the delay.
OnSceneCreated_noDelay(createResult) ==
  /\ findEmptySlots(args, 3)
  /\ pc' = "retry"
  /\ awaiting' = Len(calls) + 1
  /\ loc' = [loc EXCEPT !.scenesCreated = createResult.created, !.trace = Append(@, "query")]
  /\ result' = result

\* clip.createScene answered with success: note what was created and start
\* the 50 ms settle delay.
OnSceneCreated(createResult) ==
  /\ pc' = "delay"
  /\ awaiting' = 0
  /\ loc' = [loc EXCEPT !.scenesCreated = createResult.created, !.trace = Append(@, "delay")]
  /\ UNCHANGED <<chanVars, result>>

\* The awaited send() has settled: the function runs on to its next await.
\* A failed first query throws; a failed clip.createScene or retried query is
\* caught and the function returns what it has.
AutoResume ==
  /\ UNCHANGED dataVars
  /\ UNCHANGED <<regVars, extension>>
  /\ UNCHANGED envVars
  /\ tool = AutoCreate
  /\ awaiting # 0
  /\ Settled(awaiting)
  /\ UNCHANGED <<tool, daw, args>>
  /\ LET call == calls[awaiting]
         failed == call.st = "rejected"
     IN CASE pc = "findEmptySlots" ->
               IF failed THEN Throw(call.out) ELSE OnFirstQuery(call.out)
          [] pc = "createScene" ->
               IF failed THEN Return(loc.emptyResult, loc.scenesCreated)
               ELSE IF call.out.success THEN OnSceneCreated(call.out)
               ELSE Return(loc.emptyResult, loc.scenesCreated)
          [] pc = "retry" ->
               IF failed THEN Return(loc.emptyResult, loc.scenesCreated)
               ELSE Return(call.out, loc.scenesCreated)

\* The settle delay has elapsed: the capacity query is sent again.
AutoDelay ==
  /\ UNCHANGED dataVars
  /\ UNCHANGED <<regVars, extension>>
  /\ UNCHANGED envVars
  /\ tool = AutoCreate
  /\ pc = "delay"
  /\ UNCHANGED <<tool, daw, args>>
  /\ findEmptySlots(args, 3)
  /\ pc' = "retry"
  /\ awaiting' = Len(calls) + 1
  /\ loc' = [loc EXCEPT !.trace = Append(@, "query")]
  /\ result' = result

AutoNext ==
  \/ \E count \in 1..MaxCount : AutoStart(count)
  \/ AutoResume
  \/ AutoDelay
  \/ Channel

AutoSpec == Init /\ [][AutoNext]_vars

\* ------------------------------------------------------------ the DAW side
\* The handlers below are modelled one await at a time: a step is the code
\* between two awaits together with the round trip of the command it ends
\* with, whose outcome (the answer, or a rejection of the promise) the handler
\* finds when it resumes.  The backend is the Bitwig extension: a track bank,
\* the launcher clips by track and slot, the scenes of the project and the
\* selected slot, and the scene count and selection its observers have
\* reported so far.
Daws == {"bitwig", "ableton"}

\* trackBank.getItemAt(index): the track there, "" when !track.exists().
TrackAt(b, index) == IF index \in 0..(Len(b.tracks) - 1) THEN b.tracks[index + 1] ELSE ""

\* slot.hasContent() of slot slotIndex of the track at trackIndex.
SlotHasContent(b, trackIndex, slotIndex) == <<TrackAt(b, trackIndex), slotIndex>> \in b.content

\* The loop of findEmptySlots: the first `count` slots without content from
\* slot i on, below the observed scene count.
RECURSIVE EmptySlotsFrom(_, _, _, _)
EmptySlotsFrom(b, trackIndex, i, count) ==
  IF i >= b.sceneCount \/ count = 0 THEN <<>>
  ELSE IF SlotHasContent(b, trackIndex, i) THEN EmptySlotsFrom(b, trackIndex, i + 1, count)
  ELSE <<i>> \o EmptySlotsFrom(b, trackIndex, i + 1, count - 1)

\* The loop of listClips: the slots with content from slot i on, in order.
RECURSIVE ClipsFrom(_, _, _)
ClipsFrom(b, trackIndex, i) ==
  IF i >= b.scenes THEN <<>>
  ELSE IF SlotHasContent(b, trackIndex, i)
    THEN <<[slotIndex |-> i]>> \o ClipsFrom(b, trackIndex, i + 1)
    ELSE ClipsFrom(b, trackIndex, i + 1)

\* A handler of the extension returns `out`, leaving the project as b; or it
\* throws, which the server answers with an error response.
Returns(b, out) == [ok |-> TRUE, out |-> out, backend |-> b]
Throws(b, message) == [ok |-> FALSE, out |-> message, backend |-> b]
successResponse == [success |-> TRUE]
NoSuchTrack(index) == <<"Track does not exist at index", index>>

\* The sequence without its element at position k (1-based).
RemoveAt(seq, k) == SubSeq(seq, 1, k - 1) \o SubSeq(seq, k + 1, Len(seq))

\* ClipHandler.handle: one clip command on the project b.
ClipHandler(b, method, arg) ==
  CASE method = "clip.getSelection" -> Returns(b, b.selection)
    [] method = "clip.getSceneCount" -> Returns(b, [sceneCount |-> b.sceneCount])
    [] method = "clip.findEmptySlots" ->
         IF TrackAt(b, arg.trackIndex) = "" THEN Throws(b, NoSuchTrack(arg.trackIndex))
         ELSE LET emptySlots == EmptySlotsFrom(b, arg.trackIndex, arg.startSlot, arg.count)
              IN Returns(b, [trackIndex |-> arg.trackIndex, emptySlots |-> emptySlots,
                             found |-> Len(emptySlots), requested |-> arg.count,
                             sceneCount |-> b.sceneCount])
    [] method = "clip.createScene" ->
         Returns([b EXCEPT !.scenes = @ + arg.count],
                 [success |-> TRUE, created |-> arg.count, sceneCount |-> b.sceneCount])
    [] method = "clip.hasContent" ->
         IF TrackAt(b, arg.trackIndex) = "" THEN Throws(b, NoSuchTrack(arg.trackIndex))
         ELSE Returns(b, [trackIndex |-> arg.trackIndex, slotIndex |-> arg.slotIndex,
                          hasContent |-> SlotHasContent(b, arg.trackIndex, arg.slotIndex)])
    [] method = "clip.create" ->
         IF TrackAt(b, arg.trackIndex) = "" THEN Throws(b, NoSuchTrack(arg.trackIndex))
         ELSE Returns([b EXCEPT !.content = @ \cup {<<TrackAt(b, arg.trackIndex), arg.slotIndex>>}],
                      successResponse)
    [] method = "clip.delete" ->
         Returns([b EXCEPT !.content = @ \ {<<TrackAt(b, arg.trackIndex), arg.slotIndex>>}],
                 successResponse)
    [] method = "clip.select" ->
         Returns([b EXCEPT !.selected = [trackIndex |-> arg.trackIndex,
                                         slotIndex |-> arg.slotIndex]],
                 successResponse)
    [] method = "clip.list" ->
         IF TrackAt(b, arg.trackIndex) = "" THEN Throws(b, NoSuchTrack(arg.trackIndex))
         ELSE Returns(b, [trackIndex |-> arg.trackIndex,
                          clips |-> ClipsFrom(b, arg.trackIndex, 0),
                          count |-> Len(ClipsFrom(b, arg.trackIndex, 0))])
    [] OTHER -> Returns(b, successResponse)

\* TrackHandler.handle: one track command on the project b.  A created track
\* goes to the given position, or to the end.
TrackHandler(b, method, arg) ==
  CASE method = "track.create" ->
         LET at == IF "position" \in DOMAIN arg /\ arg.position \in 0..Len(b.tracks)
                     THEN arg.position ELSE Len(b.tracks)
         IN Returns([b EXCEPT !.tracks = SubSeq(@, 1, at) \o <<"new">> \o SubSeq(@, at + 1, Len(@))],
                    successResponse)
    [] method = "track.delete" ->
         IF TrackAt(b, arg.index) = "" THEN Throws(b, NoSuchTrack(arg.index))
         ELSE Returns([b EXCEPT !.tracks = RemoveAt(@, arg.index + 1)], successResponse)
    [] OTHER -> Returns(b, successResponse)

\* The notes of a set in the order getNotes finds them: step by step, and
\* within a step from the lowest key up.
RECURSIVE NotesInOrder(_)
NotesInOrder(S) ==
  IF S = {} THEN <<>>
  ELSE LET first == CHOOSE n \in S :
                      \A m \in S : n[1] < m[1] \/ (n[1] = m[1] /\ n[2] <= m[2])
       IN <<[x |-> first[1], y |-> first[2]]>> \o NotesInOrder(S \ {first})

\* The note commands of ClipHandler on the cursor clip, whose notes are the
\* cells <<x, y>> of the step grid that hold a note.  getNotes returns none
\* when the selected slot is empty; moveNote is clip.moveStep: the note of the
\* cell, when it has one, is taken to the cell (x + dx, y + dy).
NoteHandler(b, method, arg) ==
  CASE method = "clip.getNotes" ->
         IF /\ b.selection.trackIndex >= 0 /\ b.selection.slotIndex >= 0
            /\ <<TrackAt(b, b.selection.trackIndex), b.selection.slotIndex>> \in b.content
           THEN Returns(b, [notes |-> NotesInOrder(b.notes)])
           ELSE Returns(b, [notes |-> <<>>])
    [] method = "clip.moveNote" ->
         IF <<arg.x, arg.y>> \in b.notes
           THEN Returns([b EXCEPT !.notes = (@ \ {<<arg.x, arg.y>>})
                                              \cup {<<arg.x + arg.dx, arg.y + arg.dy>>}],
                        successResponse)
           ELSE Returns(b, successResponse)

\* CommandDispatcher.dispatch: the extension executes one command.
Execute(b, method, arg) ==
  CASE method \in {"clip.getSelection", "clip.getSceneCount", "clip.findEmptySlots",
                   "clip.createScene", "clip.hasContent", "clip.create", "clip.delete",
                   "clip.select", "clip.list", "clip.setName"} -> ClipHandler(b, method, arg)
    [] method \in {"track.create", "track.delete", "track.setName"} -> TrackHandler(b, method, arg)
    [] method \in {"clip.getNotes", "clip.moveNote"} -> NoteHandler(b, method, arg)
    [] OTHER -> Returns(b, successResponse)

\* How awaiting a send() on the client of DAW d can end: the extension's
\* answer arrives; the request times out, lost on the way or executed with
\* its answer not arriving in time; the connection is refused when the DAW
\* is not up.
Endings(b, d) == IF d \in b.up THEN {"answered", "lost", "late"} ELSE {"refused"}

\* The outcome of send(method, arg) with that ending: whether the promise
\* resolves, with what, and the project afterwards.
Outcome(b, method, arg, ending) ==
  CASE ending = "answered" -> Execute(b, method, arg)
    [] ending = "lost" -> Throws(b, <<"Request timeout">>)
    [] ending = "late" -> Throws(Execute(b, method, arg).backend, <<"Request timeout">>)
    [] ending = "refused" -> Throws(b, <<"connect ECONNREFUSED">>)

\* -------------------------------------------------------------- tool calls
\* The `daw` argument of a tool call: a DAW, "" when it is left out, or a
\* name that is no DAW.
ExplicitDaws == Daws \cup {"", "reaper"}

\* A resolution that takes the configured default whenever no DAW is named.
resolveDaw_defaultOnly(explicitDaw, connected, configDefault) ==
  IF explicitDaw \in Daws THEN explicitDaw ELSE configDefault

\* resolveDaw, after the probes: the explicit DAW; else the only connected
\* one; else the configured default.
resolveDaw(explicitDaw, connected, configDefault) ==
  IF explicitDaw \in Daws THEN explicitDaw
  ELSE IF Cardinality(connected) = 1 THEN CHOOSE d \in connected : TRUE
  ELSE configDefault

\* The promise of call c settles with the outcome o.
Settle(cs, c, o) == IF o.ok THEN Resolve(cs, c, o.out) ELSE Reject(cs, c, o.out)

\* A checkConnections that probes on the first tool call only.
checkConnections_once(cs, owner, answers) ==
  IF toolCalls > 0 THEN cs
  ELSE Settle(Settle(cs \o <<NewCall(owner, "project.getInfo", [daw |-> "bitwig"]),
                              NewCall(owner, "project.getInfo", [daw |-> "ableton"])>>,
                     Len(cs) + 1, answers["bitwig"]),
              Len(cs) + 2, answers["ableton"])

\* checkConnections(): project.getInfo to the client of each DAW, both
\* awaited together; `answers` gives the outcome of each probe.
checkConnections(cs, owner, answers) ==
  LET n == Len(cs)
      sent == cs \o <<NewCall(owner, "project.getInfo", [daw |-> "bitwig"]),
                      NewCall(owner, "project.getInfo", [daw |-> "ableton"])>>
  IN Settle(Settle(sent, n + 1, answers["bitwig"]), n + 2, answers["ableton"])

\* connections.filter(c => c.connected): the DAWs whose probe of this
\* checkConnections was answered.
connected(cs, owner) ==
  {d \in Daws : \E c \in 1..Len(cs) :
     cs[c].owner = owner /\ cs[c].arg = [daw |-> d] /\ cs[c].st = "resolved"}

\* The ports the manager is constructed with.
Ports == [bitwig |-> 8181, ableton |-> 8182]

\* `${port}` of dawManager.getPort(daw): the digits of the port, "undefined"
\* for a name that is no DAW.
getPort(d) == IF d \in DOMAIN Ports THEN String(Ports[d]) ELSE <<"undefined">>

dawName(targetDaw) == IF targetDaw = "bitwig" THEN "Bitwig Studio" ELSE "Ableton Live"

extensionName(targetDaw) ==
  IF targetDaw = "bitwig" THEN "Bitwig MCP Bridge extension" ELSE "AbletonMCP Remote Script"

\* The connection help text: the DAW to start, the extension to enable, the
\* port it listens on.
HelpText(targetDaw) ==
  <<"Could not connect to", dawName(targetDaw), extensionName(targetDaw), getPort(targetDaw)>>

\* handleError: a message naming a connection failure is replaced by the
\* connection help text for requestedDaw ?? config.defaultDaw (the `daw`
\* argument of the call as the caller gave it); any other is returned as it
\* is.
handleError(message, requestedDaw) ==
  LET targetDaw == IF requestedDaw = "" THEN config.defaultDaw ELSE requestedDaw
  IN IF message[1] \in {"connect ECONNREFUSED", "Connection closed"}
       THEN [isError |-> TRUE, text |-> HelpText(targetDaw)]
       ELSE [isError |-> TRUE, text |-> message]

\* await dawManager.send(method, arg, daw): the command is sent and the
\* handler, its locals as given, resumes at `at` with the outcome.
Await(owner, method, arg, at, locals) ==
  \E ending \in Endings(backend, daw) :
    LET o == Outcome(backend, method, arg, ending) IN
    /\ calls' = Settle(Append(calls, NewCall(owner, method, arg)), Len(calls) + 1, o)
    /\ backend' = o.backend
    /\ pc' = at
    /\ awaiting' = Len(calls) + 1
    /\ loc' = locals
    /\ result' = result

\* The handler returns `value`.
Finish(value, locals) ==
  /\ pc' = "done"
  /\ awaiting' = 0
  /\ loc' = locals
  /\ result' = value
  /\ UNCHANGED <<calls, backend>>

\* A server without the catch: what the handler throws leaves the request
\* handler as an exception.
Raise_uncaught(message) ==
  /\ pc' = "thrown"
  /\ awaiting' = 0
  /\ result' = [thrown |-> message]
  /\ UNCHANGED <<calls, backend, loc>>

\* The handler throws: createServer catches and returns handleError's result.
Raise(message) ==
  /\ pc' = "thrown"
  /\ awaiting' = 0
  /\ result' = handleError(message, args.daw)
  /\ UNCHANGED <<calls, backend, loc>>

\* await new Promise(resolve => setTimeout(resolve, ms))
Sleep(at, locals) ==
  /\ pc' = at
  /\ awaiting' = 0
  /\ loc' = locals
  /\ UNCHANGED <<calls, backend, result>>

\* ------------------------------------------------------- batch_create_clips
NoEmptySlots(sceneCount) ==
  <<"No empty slots available even after attempting to create scenes. Scene count:", sceneCount>>
NoEmptySlotsFrom(position, sceneCount) ==
  <<"No empty slots available from position", position,
    "even after attempting to create scenes. Scene count:", sceneCount>>
SlotHasContentError(slotIndex, trackIndex) ==
  <<"Slot", slotIndex, "on track", trackIndex, "has content. Use overwrite=true to replace.">>

\* The clip requests batch_create_clips is called with: a clip at the first
\* free slot of the cursor track, a named clip at a given track and slot, a
\* clip at the first free slot of a given track.
ClipRequests ==
  {[trackIndex |-> Undefined, slotIndex |-> Undefined, name |-> ""],
   [trackIndex |-> 1, slotIndex |-> 1, name |-> "intro"],
   [trackIndex |-> 2, slotIndex |-> Undefined, name |-> ""]}

\* The handler's locals when it starts.
CreateClipsLocals ==
  [cursorTrack |-> -1, cursorSlot |-> -1, i |-> 0, errors |-> <<>>, createdClips |-> <<>>,
   completed |-> 0, trackIndex |-> -1, slotIndex |-> -1, emptyResult |-> <<>>,
   scenesCreated |-> 0]

\* The call has no clips: one clip goes to the first empty slot from the cursor.
NoClips == Len(args.clips) = 0

\* The object the loop path returns.
CreateClipsResult(l) ==
  LET base == [success |-> Len(l.errors) = 0, completed |-> l.completed,
               failed |-> Len(l.errors), createdClips |-> l.createdClips]
  IN IF Len(l.errors) > 0 THEN base @@ [errors |-> l.errors] ELSE base

\* The object the no-clips path returns after its clip.create.
CreateOneResult(l) ==
  LET base == CreateClipsResult(l) @@ [sceneCount |-> l.emptyResult.sceneCount]
  IN IF l.scenesCreated > 0 THEN base @@ [scenesCreated |-> l.scenesCreated] ELSE base

\* The top of the for loop, at clips[l.i]: its first await, or the return.
CreateClipsLoop(l) ==
  IF l.i >= Len(args.clips) THEN Finish(CreateClipsResult(l), l)
  ELSE LET clip == args.clips[l.i + 1]
           trackIndex == IF clip.trackIndex # Undefined
                           THEN toInternal(clip.trackIndex) ELSE l.cursorTrack
       IN IF clip.slotIndex # Undefined
            THEN Await(<<"bridge", l.i + 1>>, "clip.hasContent",
                       [trackIndex |-> trackIndex, slotIndex |-> toInternal(clip.slotIndex)],
                       "hasContent",
                       [l EXCEPT !.trackIndex = trackIndex,
                                 !.slotIndex = toInternal(clip.slotIndex)])
            ELSE Await(<<"bridge", l.i + 1>>, "clip.findEmptySlots",
                       [trackIndex |-> trackIndex, startSlot |-> l.cursorSlot, count |-> 1],
                       "findEmptySlots",
                       [l EXCEPT !.trackIndex = trackIndex, !.scenesCreated = 0])

\* errors.push({ index: i, error }) and on to the next clip.
ClipFailed(l, error) ==
  CreateClipsLoop([l EXCEPT !.errors = Append(@, [index |-> l.i, error |-> error]),
                            !.i = @ + 1])

\* createdClips.push(...), completed++ and on to the next clip.
ClipCreated(l) ==
  LET clip == args.clips[l.i + 1]
      created == [trackIndex |-> toUser(l.trackIndex), slotIndex |-> toUser(l.slotIndex),
                  lengthInBeats |-> OrDefault(clip, "lengthInBeats", 4)]
  IN CreateClipsLoop([l EXCEPT !.createdClips =
                                 Append(@, IF clip.name # "" THEN created @@ [name |-> clip.name]
                                           ELSE created),
                               !.completed = @ + 1,
                               !.i = @ + 1])

\* clip.create for the slot the clip goes to.
CreateClip(l) ==
  Await(<<"bridge", l.i + 1>>, "clip.create",
        [trackIndex |-> l.trackIndex, slotIndex |-> l.slotIndex,
         lengthInBeats |-> OrDefault(args.clips[l.i + 1], "lengthInBeats", 4)],
        "create", l)

\* A search that starts every auto-find item at the same slot.
nextCursorSlot_kept(cursorSlot, slotIndex) == cursorSlot

\* cursorSlot = slotIndex + 1: the next auto-find starts past the chosen slot.
nextCursorSlot(cursorSlot, slotIndex) == slotIndex + 1

\* A placement that throws when the pass has left no slot.
SlotsFound_throws(l, emptyResult, scenesCreated) ==
  IF emptyResult.found = 0
    THEN Raise(NoEmptySlots(emptyResult.sceneCount))
    ELSE IF NoClips
      THEN Await(<<"bridge", 0>>, "clip.create",
                 [trackIndex |-> l.cursorTrack, slotIndex |-> emptyResult.emptySlots[1],
                  lengthInBeats |-> 4],
                 "createOne",
                 [l EXCEPT !.emptyResult = emptyResult, !.scenesCreated = scenesCreated,
                           !.trackIndex = l.cursorTrack,
                           !.slotIndex = emptyResult.emptySlots[1]])
      ELSE CreateClip([l EXCEPT !.emptyResult = emptyResult, !.scenesCreated = scenesCreated,
                                !.slotIndex = emptyResult.emptySlots[1],
                                !.cursorSlot = nextCursorSlot(@, emptyResult.emptySlots[1])])

\* findEmptySlotsWithAutoCreate has returned emptyResult and scenesCreated.
SlotsFound(l, emptyResult, scenesCreated) ==
  LET m == [l EXCEPT !.emptyResult = emptyResult, !.scenesCreated = scenesCreated]
  IN IF NoClips
       THEN IF emptyResult.found = 0
              THEN Finish([success |-> FALSE, completed |-> 0, failed |-> 1,
                           errors |-> <<[index |-> 0,
                                         error |-> NoEmptySlots(emptyResult.sceneCount)]>>,
                           sceneCount |-> emptyResult.sceneCount], m)
              ELSE Await(<<"bridge", 0>>, "clip.create",
                         [trackIndex |-> l.cursorTrack, slotIndex |-> emptyResult.emptySlots[1],
                          lengthInBeats |-> 4],
                         "createOne",
                         [m EXCEPT !.trackIndex = l.cursorTrack,
                                   !.slotIndex = emptyResult.emptySlots[1]])
       ELSE IF emptyResult.found = 0
              THEN ClipFailed(m, NoEmptySlotsFrom(toUser(l.cursorSlot), emptyResult.sceneCount))
              ELSE CreateClip([m EXCEPT !.slotIndex = emptyResult.emptySlots[1],
                                        !.cursorSlot = nextCursorSlot(@, emptyResult.emptySlots[1])])

\* A handler that keeps a cursor slot beyond the existing scenes.
validCursorSlot_kept(cursorSlot, sceneCount) == cursorSlot

\* if (cursorSlot >= sceneCount) cursorSlot = 0
validCursorSlot(cursorSlot, sceneCount) == IF cursorSlot >= sceneCount THEN 0 ELSE cursorSlot

\* A targeted creation that goes ahead whatever the slot holds.
occupiedRefused_never(hasContent, overwrite) == FALSE

\* if (hasContent && !overwrite): the item fails with the 'has content' error.
occupiedRefused(hasContent, overwrite) == hasContent /\ ~overwrite

\* handleBatchCreateClips resumes with the outcome of the command it awaited.
CreateClipsResume(call, failed) ==
  CASE pc = "handler" ->
         Await(<<"bridge", 0>>, "clip.getSelection", <<>>, "cursor", CreateClipsLocals)
    [] pc = "cursor" ->
         IF failed THEN Raise(call.out)
         ELSE IF call.out.trackIndex = -1 \/ call.out.slotIndex = -1 THEN Raise(NoSlotSelected)
         ELSE Await(<<"bridge", 0>>, "clip.getSceneCount", <<>>, "sceneCount",
                    [loc EXCEPT !.cursorTrack = call.out.trackIndex,
                                !.cursorSlot = call.out.slotIndex])
    [] pc = "sceneCount" ->
         IF failed THEN Raise(call.out)
         ELSE LET l == [loc EXCEPT !.cursorSlot = validCursorSlot(@, call.out.sceneCount)]
              IN IF NoClips
                   THEN Await(<<"bridge", 0>>, "clip.findEmptySlots",
                              [trackIndex |-> l.cursorTrack, startSlot |-> l.cursorSlot,
                               count |-> 1],
                              "findEmptySlots", [l EXCEPT !.trackIndex = l.cursorTrack])
                   ELSE CreateClipsLoop(l)
    [] pc = "hasContent" ->
         IF failed THEN ClipFailed(loc, call.out)
         ELSE IF occupiedRefused(call.out.hasContent, args.overwrite)
           THEN ClipFailed(loc, SlotHasContentError(
                                  args.clips[loc.i + 1].slotIndex,
                                  IF args.clips[loc.i + 1].trackIndex # Undefined
                                    THEN args.clips[loc.i + 1].trackIndex
                                    ELSE toUser(loc.cursorTrack)))
         ELSE IF call.out.hasContent /\ args.overwrite
           THEN Await(<<"bridge", loc.i + 1>>, "clip.delete",
                      [trackIndex |-> loc.trackIndex, slotIndex |-> loc.slotIndex],
                      "delete", loc)
         ELSE CreateClip(loc)
    [] pc = "delete" ->
         IF failed THEN ClipFailed(loc, call.out) ELSE CreateClip(loc)
    [] pc = "findEmptySlots" ->
         IF failed THEN (IF NoClips THEN Raise(call.out) ELSE ClipFailed(loc, call.out))
         ELSE IF call.out.found < 1
           THEN Await(<<"bridge", IF NoClips THEN 0 ELSE loc.i + 1>>, "clip.createScene",
                      [count |-> scenesNeeded(1, call.out.found)],
                      "createScene", [loc EXCEPT !.emptyResult = call.out])
         ELSE SlotsFound(loc, call.out, 0)
    [] pc = "createScene" ->
         IF failed THEN SlotsFound(loc, loc.emptyResult, 0)
         ELSE IF call.out.success
           THEN Sleep("sceneDelay", [loc EXCEPT !.scenesCreated = call.out.created])
         ELSE SlotsFound(loc, loc.emptyResult, 0)
    [] pc = "retry" ->
         IF failed THEN SlotsFound(loc, loc.emptyResult, loc.scenesCreated)
         ELSE SlotsFound(loc, call.out, loc.scenesCreated)
    [] pc = "createOne" ->
         IF failed
           THEN Finish(CreateOneResult([loc EXCEPT !.errors = <<[index |-> 0, error |-> call.out]>>]),
                       [loc EXCEPT !.errors = <<[index |-> 0, error |-> call.out]>>])
           ELSE LET l == [loc EXCEPT !.createdClips =
                                       <<[trackIndex |-> toUser(loc.cursorTrack),
                                          slotIndex |-> toUser(loc.slotIndex),
                                          lengthInBeats |-> 4]>>,
                                     !.completed = 1]
                IN Finish(CreateOneResult(l), l)
    [] pc = "create" ->
         IF failed THEN ClipFailed(loc, call.out)
         ELSE IF args.clips[loc.i + 1].name # ""
           THEN Await(<<"bridge", loc.i + 1>>, "clip.select",
                      [trackIndex |-> loc.trackIndex, slotIndex |-> loc.slotIndex],
                      "select", loc)
         ELSE ClipCreated(loc)
    [] pc = "select" ->
         IF failed THEN ClipFailed(loc, call.out) ELSE Sleep("nameDelay", loc)
    [] pc = "setName" ->
         IF failed THEN ClipFailed(loc, call.out) ELSE ClipCreated(loc)

\* A delay of handleBatchCreateClips has elapsed.
CreateClipsDelay ==
  CASE pc = "sceneDelay" ->
         Await(<<"bridge", IF NoClips THEN 0 ELSE loc.i + 1>>, "clip.findEmptySlots",
               [trackIndex |-> loc.trackIndex, startSlot |-> loc.cursorSlot, count |-> 1],
               "retry", loc)
    [] pc = "nameDelay" ->
         Await(<<"bridge", loc.i + 1>>, "clip.setName",
               [name |-> args.clips[loc.i + 1].name], "setName", loc)

\* --------------------------------------------------------- batch_list_clips
NoTrackSelected == <<"No track selected. Select a track in DAW or provide trackIndex/trackIndices (1-based).">>

\* The object handleBatchListClips returns.
ListClipsResult(l) ==
  LET base == [success |-> Len(l.errors) = 0, completed |-> Len(l.results),
               failed |-> Len(l.errors), tracks |-> l.results]
  IN IF Len(l.errors) > 0 THEN base @@ [errors |-> l.errors] ELSE base

\* A mapping that returns the clips with the slot numbers of the backend.
convertedClips_asReported(clips) == clips

\* clipsResult.clips.map(clip => ({ ...clip, slotIndex: toUser(clip.slotIndex) }))
convertedClips(clips) == [k \in 1..Len(clips) |-> [clips[k] EXCEPT !.slotIndex = toUser(@)]]

\* The top of the for loop over trackIndices.
ListClipsLoop(l) ==
  IF l.i >= Len(l.trackIndices) THEN Finish(ListClipsResult(l), l)
  ELSE Await(<<"bridge", l.i + 1>>, "clip.list",
             [trackIndex |-> toInternal(l.trackIndices[l.i + 1])], "list", l)

ListClipsResume(call, failed) ==
  CASE pc = "handler" ->
         IF Len(args.trackIndices) > 0
           THEN ListClipsLoop([trackIndices |-> args.trackIndices, i |-> 0,
                               results |-> <<>>, errors |-> <<>>])
         ELSE IF args.trackIndex # Undefined
           THEN ListClipsLoop([trackIndices |-> <<args.trackIndex>>, i |-> 0,
                               results |-> <<>>, errors |-> <<>>])
         ELSE Await(<<"bridge", 0>>, "clip.getSelection", <<>>, "cursor",
                    [trackIndices |-> <<>>, i |-> 0, results |-> <<>>, errors |-> <<>>])
    [] pc = "cursor" ->
         IF failed THEN Raise(call.out)
         ELSE IF call.out.trackIndex = -1
           THEN Finish([success |-> FALSE, completed |-> 0, failed |-> 1,
                        errors |-> <<[index |-> 0, error |-> NoTrackSelected]>>], loc)
         ELSE ListClipsLoop([loc EXCEPT !.trackIndices = <<toUser(call.out.trackIndex)>>])
    [] pc = "list" ->
         IF failed
           THEN ListClipsLoop([loc EXCEPT !.errors = Append(@, [index |-> loc.i, error |-> call.out]),
                                          !.i = @ + 1])
           ELSE ListClipsLoop([loc EXCEPT !.results =
                                            Append(@, [trackIndex |-> loc.trackIndices[loc.i + 1],
                                                       clips |-> convertedClips(call.out.clips)]),
                                          !.i = @ + 1])

\* ------------------------------------------------------- batch_delete_clips
\* resolveClipIndices: with both indices it returns them converted, without
\* asking; otherwise it asks for the selection and returns it as it is.
asksSelection(trackIndex, slotIndex) == ~(trackIndex # Undefined /\ slotIndex # Undefined)

\* A resolveClipIndices that converts the reported selection as well.
resolveClipIndices_convertsSelection(trackIndex, slotIndex, selection) ==
  IF trackIndex # Undefined /\ slotIndex # Undefined
    THEN [trackIndex |-> toInternal(trackIndex), slotIndex |-> toInternal(slotIndex)]
    ELSE [trackIndex |-> toInternal(selection.trackIndex),
          slotIndex |-> toInternal(selection.slotIndex)]

resolveClipIndices(trackIndex, slotIndex, selection) ==
  IF trackIndex # Undefined /\ slotIndex # Undefined
    THEN [trackIndex |-> toInternal(trackIndex), slotIndex |-> toInternal(slotIndex)]
    ELSE [trackIndex |-> selection.trackIndex, slotIndex |-> selection.slotIndex]

\* The clips batch_delete_clips is called with: a clip by track and slot, the
\* selected clip, a clip by its track only.
ClipAddresses ==
  {[trackIndex |-> 1, slotIndex |-> 2],
   [trackIndex |-> Undefined, slotIndex |-> Undefined],
   [trackIndex |-> 2, slotIndex |-> Undefined]}

\* The clip the handler is at: clips[i], or the cursor when there are none.
ClipAt(i) ==
  IF NoClips THEN [trackIndex |-> Undefined, slotIndex |-> Undefined] ELSE args.clips[i + 1]

\* clip.delete for the indices resolveClipIndices returned.
DeleteClip(l, indices) ==
  Await(<<"bridge", IF NoClips THEN 0 ELSE l.i + 1>>, "clip.delete",
        [trackIndex |-> indices.trackIndex, slotIndex |-> indices.slotIndex], "delete", l)

\* The top of the for loop (once through for the cursor clip).
DeleteClipsLoop(l) ==
  IF (NoClips /\ l.i >= 1) \/ (~NoClips /\ l.i >= Len(args.clips))
    THEN Finish(BatchResult(l.completed, l.errors), l)
    ELSE IF asksSelection(ClipAt(l.i).trackIndex, ClipAt(l.i).slotIndex)
      THEN Await(<<"bridge", IF NoClips THEN 0 ELSE l.i + 1>>, "clip.getSelection", <<>>,
                 "selection", l)
      ELSE DeleteClip(l, resolveClipIndices(ClipAt(l.i).trackIndex, ClipAt(l.i).slotIndex,
                                            <<>>))

\* catch: errors.push({ index: i, error })
DeleteFailed(l, error) ==
  DeleteClipsLoop([l EXCEPT !.errors = Append(@, [index |-> l.i, error |-> error]),
                            !.i = @ + 1])

DeleteClipsResume(call, failed) ==
  CASE pc = "handler" -> DeleteClipsLoop([i |-> 0, errors |-> <<>>, completed |-> 0])
    [] pc = "selection" ->
         IF failed
           THEN (IF NoClips THEN Raise(call.out) ELSE DeleteFailed(loc, call.out))
         ELSE IF NothingSelected(call.out)
           THEN (IF NoClips THEN Raise(NoSlotSelected) ELSE DeleteFailed(loc, NoSlotSelected))
         ELSE DeleteClip(loc, resolveClipIndices(ClipAt(loc.i).trackIndex,
                                                 ClipAt(loc.i).slotIndex, call.out))
    [] pc = "delete" ->
         IF failed THEN DeleteFailed(loc, call.out)
         ELSE DeleteClipsLoop([loc EXCEPT !.completed = @ + 1, !.i = @ + 1])

\* ------------------------------------------------------ batch_create_tracks
\* The tracks batch_create_tracks is called with: at the end (-1), at a
\* position with a name, without a position.
TrackRequests ==
  {[type |-> "instrument", name |-> "", position |-> -1],
   [type |-> "audio", name |-> "lead", position |-> 2],
   [type |-> "instrument", name |-> "", position |-> Undefined]}

\* The params of track.create for one request.
trackRequest(track) ==
  IF track.position # Undefined
    THEN [type |-> track.type,
          position |-> IF track.position = -1 THEN -1 ELSE toInternal(track.position)]
    ELSE [type |-> track.type]

\* The object handleBatchCreateTracks returns.
CreateTracksResult(l) ==
  LET base == [success |-> Len(l.errors) = 0, completed |-> l.completed,
               failed |-> Len(l.errors), createdIndices |-> l.createdIndices]
  IN IF Len(l.errors) > 0 THEN base @@ [errors |-> l.errors] ELSE base

CreateTracksLoop(l) ==
  IF l.i >= Len(args.tracks) THEN Finish(CreateTracksResult(l), l)
  ELSE Await(<<"bridge", l.i + 1>>, "track.create", trackRequest(args.tracks[l.i + 1]),
             "create", l)

CreateTracksResume(call, failed) ==
  CASE pc = "handler" ->
         CreateTracksLoop([i |-> 0, errors |-> <<>>, createdIndices |-> <<>>, completed |-> 0])
    [] pc = "create" ->
         IF failed
           THEN CreateTracksLoop([loc EXCEPT !.errors = Append(@, [index |-> loc.i,
                                                                   error |-> call.out]),
                                             !.i = @ + 1])
         ELSE LET l == IF "index" \in DOMAIN call.out
                         THEN [loc EXCEPT !.createdIndices = Append(@, toUser(call.out.index))]
                         ELSE loc
              IN IF args.tracks[loc.i + 1].name # "" /\ "index" \in DOMAIN call.out
                   THEN Await(<<"bridge", loc.i + 1>>, "track.setName",
                              [index |-> call.out.index, name |-> args.tracks[loc.i + 1].name],
                              "setName", l)
                   ELSE CreateTracksLoop([l EXCEPT !.completed = @ + 1, !.i = @ + 1])
    [] pc = "setName" ->
         IF failed
           THEN CreateTracksLoop([loc EXCEPT !.errors = Append(@, [index |-> loc.i,
                                                                   error |-> call.out]),
                                             !.i = @ + 1])
           ELSE CreateTracksLoop([loc EXCEPT !.completed = @ + 1, !.i = @ + 1])

\* ------------------------------------------------------ batch_delete_tracks
DeleteTracksLoop(l) ==
  IF l.i >= Len(sortedIndices(args.trackIndices))
    THEN Finish(BatchResult(l.completed, l.errors), l)
    ELSE Await(<<"bridge", l.i + 1>>, "track.delete",
               [index |-> sortedIndices(args.trackIndices)[l.i + 1]], "delete", l)

DeleteTracksResume(call, failed) ==
  CASE pc = "handler" -> DeleteTracksLoop([i |-> 0, errors |-> <<>>, completed |-> 0])
    [] pc = "delete" ->
         IF failed
           THEN DeleteTracksLoop(
                  [loc EXCEPT !.errors =
                                Append(@, [index |-> toUser(sortedIndices(args.trackIndices)[loc.i + 1]),
                                           error |-> call.out]),
                              !.i = @ + 1])
           ELSE DeleteTracksLoop([loc EXCEPT !.completed = @ + 1, !.i = @ + 1])

\* ---------------------------------------------------------- set_clip_length
\* getCommand(name)
getCommand(toolName) ==
  CASE toolName = "set_clip_length" -> "clip.setLength"
    [] toolName = "transpose_clip" -> "clip.transpose"
    [] OTHER -> toolName

\* The arguments as the dispatcher forwards them: trackIndex and slotIndex
\* converted where they are given.
forwardedArgs(a) ==
  LET rest == [lengthInBeats |-> a.lengthInBeats]
      withTrack == IF a.trackIndex # Undefined
                     THEN rest @@ [trackIndex |-> toInternal(a.trackIndex)] ELSE rest
  IN IF a.slotIndex # Undefined
       THEN withTrack @@ [slotIndex |-> toInternal(a.slotIndex)] ELSE withTrack

CommandResume(call, failed) ==
  CASE pc = "handler" ->
         Await(<<"bridge", 0>>, getCommand(tool), forwardedArgs(args), "command", <<>>)
    [] pc = "command" ->
         IF failed THEN Raise(call.out) ELSE Finish(call.out, loc)

\* ------------------------------------------------------------- the server
BridgeTools == {"batch_create_clips", "batch_list_clips", "batch_delete_clips",
                "batch_create_tracks", "batch_delete_tracks", "set_clip_length"}

\* The arguments the tools are called with.
BridgeArgs(t) ==
  CASE t = "batch_create_clips" ->
         {[daw |-> "bitwig", clips |-> l, overwrite |-> o] :
            l \in Lists(ClipRequests, MaxItems), o \in BOOLEAN}
    [] t = "batch_list_clips" ->
         {[daw |-> "bitwig", trackIndices |-> l, trackIndex |-> ti] :
            l \in Lists({1, 4}, MaxItems), ti \in {Undefined, 2}}
    [] t = "batch_delete_clips" ->
         {[daw |-> "bitwig", clips |-> l] : l \in Lists(ClipAddresses, MaxItems)}
    [] t = "batch_create_tracks" ->
         {[daw |-> "bitwig", tracks |-> l] : l \in Lists(TrackRequests, MaxItems)}
    [] t = "batch_delete_tracks" ->
         {[daw |-> "bitwig", trackIndices |-> l] : l \in Lists({1, 2, 3}, MaxItems)}
    [] t = "set_clip_length" ->
         {[daw |-> "bitwig", trackIndex |-> ti, slotIndex |-> si, lengthInBeats |-> 8] :
            ti \in {Undefined, 2}, si \in {Undefined, 1}}

\* How the probe of DAW d can end: as any command, or with an error
\* response of the extension to project.getInfo.
ProbeEndingsOf(b, d) == Endings(b, d) \cup (IF d \in b.up THEN {"error"} ELSE {})

ProbeOutcome(b, ending) ==
  IF ending = "error" THEN Throws(b, <<"Internal error">>)
  ELSE Outcome(b, "project.getInfo", <<>>, ending)

\* The outcomes the two probes of one checkConnections can have.
ProbeEndings ==
  {f \in [Daws -> UNION {ProbeEndingsOf(backend, d) : d \in Daws}] :
     \A d \in Daws : f[d] \in ProbeEndingsOf(backend, d)}

\* A probe without the try/catch: the rejection of its send leaves
\* checkConnections.
probeThrows_uncaught(o) == ~o.ok

\* try { await client.send('project.getInfo', {}); connected = true }
\* catch { connected = false }: whether the outcome of the send leaves the
\* probe as an exception.
probeThrows(o) == FALSE

\* The probes of `answers` at which checkConnections throws.
ThrowingProbes(answers) == {d \in Daws : probeThrows(answers[d])}

Ended == pc \in {"idle", "done", "thrown"}
Delays == {"sceneDelay", "nameDelay"}

\* The CallToolRequest handler takes a call of tool t with arguments a, up to
\* the point resolveDaw has returned.
ToolCall(t, a) ==
  /\ UNCHANGED dataVars
  /\ UNCHANGED <<regVars, extension>>
  /\ Ended
  /\ toolCalls < MaxToolCalls
  /\ toolCalls' = toolCalls + 1
  /\ tool' = t
  /\ args' = a
  /\ IF a.daw \in Daws
       THEN /\ daw' = resolveDaw(a.daw, {}, config.defaultDaw)
            /\ calls' = calls
            /\ pc' = "handler"
            /\ result' = <<>>
       ELSE \E endings \in ProbeEndings :
              LET answers == [d \in Daws |-> ProbeOutcome(backend, endings[d])]
                  probed == checkConnections(calls, <<"probe", toolCalls + 1>>, answers)
              IN /\ calls' = probed
                 /\ IF ThrowingProbes(answers) # {}
                      THEN /\ daw' = daw
                           /\ pc' = "thrown"
                           /\ result' = handleError(
                                           answers[CHOOSE d \in ThrowingProbes(answers) : TRUE].out,
                                           a.daw)
                      ELSE /\ daw' = resolveDaw(a.daw,
                                                connected(probed, <<"probe", toolCalls + 1>>),
                                                config.defaultDaw)
                           /\ pc' = "handler"
                           /\ result' = <<>>
  /\ awaiting' = 0
  /\ loc' = <<>>
  /\ UNCHANGED <<requestId, pendingRequests, socket, sockets, timers, config, backend>>

\* The handler starts, or resumes with the outcome of the command it awaited,
\* and runs to its next await or to its end.
Resume ==
  /\ UNCHANGED dataVars
  /\ UNCHANGED <<regVars, extension>>
  /\ tool \in BridgeTools
  /\ ~Ended
  /\ pc \notin Delays
  /\ LET call == IF awaiting # 0 THEN calls[awaiting] ELSE NewCall(<<"none", 0>>, "", <<>>)
         failed == call.st = "rejected"
     IN CASE tool = "batch_create_clips" -> CreateClipsResume(call, failed)
          [] tool = "batch_list_clips" -> ListClipsResume(call, failed)
          [] tool = "batch_delete_clips" -> DeleteClipsResume(call, failed)
          [] tool = "batch_create_tracks" -> CreateTracksResume(call, failed)
          [] tool = "batch_delete_tracks" -> DeleteTracksResume(call, failed)
          [] tool = "set_clip_length" -> CommandResume(call, failed)
  /\ UNCHANGED <<requestId, pendingRequests, socket, sockets, timers>>
  /\ UNCHANGED <<tool, daw, args, config, toolCalls>>

\* A delay the handler waits for has elapsed.
Delay ==
  /\ UNCHANGED dataVars
  /\ UNCHANGED <<regVars, extension>>
  /\ tool \in BridgeTools
  /\ pc \in Delays
  /\ CreateClipsDelay
  /\ result' = result
  /\ UNCHANGED <<requestId, pendingRequests, socket, sockets, timers>>
  /\ UNCHANGED <<tool, daw, args, config, toolCalls>>

\* Bitwig runs the observers of the extension: it now sees the scenes that
\* were created and the slot that was selected.
Observers ==
  /\ UNCHANGED dataVars
  /\ UNCHANGED <<regVars, extension>>
  /\ backend.sceneCount # backend.scenes \/ backend.selection # backend.selected
  /\ backend' = [backend EXCEPT !.sceneCount = backend.scenes, !.selection = backend.selected]
  /\ UNCHANGED <<chanVars, tool, daw, args, pc, awaiting, loc, result, config, toolCalls>>

\* A DAW is started or stopped.
BackendToggle(d) ==
  /\ UNCHANGED dataVars
  /\ UNCHANGED <<regVars, extension>>
  /\ backend' = [backend EXCEPT !.up = IF d \in @ THEN @ \ {d} ELSE @ \cup {d}]
  /\ UNCHANGED <<chanVars, tool, daw, args, pc, awaiting, loc, result, config, toolCalls>>

\* The projects a behaviour starts with: three tracks, one or two scenes,
\* clips on the first track, a selected slot or none.
Projects ==
  {[up |-> {"bitwig"}, tracks |-> <<"A", "B", "C">>, scenes |-> n, sceneCount |-> n,
    content |-> c, selected |-> sel, selection |-> sel] :
     n \in SceneCounts,
     c \in {{}, {<<"A", 0>>}, {<<"A", 0>>, <<"A", 1>>}},
     sel \in {[trackIndex |-> -1, slotIndex |-> -1],
              [trackIndex |-> 0, slotIndex |-> 0],
              [trackIndex |-> 0, slotIndex |-> 1]}}

InitBridge ==
  /\ InitChannel
  /\ tool = "none"
  /\ daw = "bitwig"
  /\ args = <<>>
  /\ pc = "idle"
  /\ awaiting = 0
  /\ loc = <<>>
  /\ result = <<>>
  /\ config = [defaultDaw |-> "bitwig"]
  /\ backend \in {b \in Projects : \A p \in b.content : p[2] < b.scenes}
  /\ toolCalls = 0

\* One tool call against a running Bitwig.
BridgeNext ==
  \/ \E t \in BridgeTools : \E a \in BridgeArgs(t) : tool = "none" /\ ToolCall(t, a)
  \/ Resume
  \/ Delay
  \/ Observers

BridgeSpec == InitBridge /\ [][BridgeNext]_vars

\* ---------------------------------------------------------- transpose_range
\* The calls of transpose_range: the clip given by both indices or left to
\* the selection, a range of steps, up or down, with or without a pitch.
TransposeArgs ==
  {[daw |-> "bitwig", trackIndex |-> ti, slotIndex |-> ti, startStep |-> 0, endStep |-> e,
    semitones |-> d, pitchFilter |-> p] :
     ti \in {Undefined, 1}, e \in {0, 1}, d \in {1, -1}, p \in {Undefined, 60}}

\* notes.filter(n => inRange && matchesPitch)
notesToMove(notes, a) ==
  SelectSeq(notes, LAMBDA n : /\ n.x >= a.startStep /\ n.x <= a.endStep
                              /\ (a.pitchFilter = Undefined \/ n.y = a.pitchFilter))

\* The object handleTransposeRange returns after its loop.
TransposeResult(l) ==
  LET base == [success |-> Len(l.errors) = 0, completed |-> l.completed,
               failed |-> Len(l.errors), notesFound |-> Len(l.notesToMove)]
  IN IF Len(l.errors) > 0 THEN base @@ [errors |-> l.errors] ELSE base

\* The top of the for loop over notesToMove.
TransposeLoop(l) ==
  IF l.i >= Len(l.notesToMove) THEN Finish(TransposeResult(l), l)
  ELSE Await(<<"bridge", l.i + 1>>, "clip.moveNote",
             [x |-> l.notesToMove[l.i + 1].x, y |-> l.notesToMove[l.i + 1].y,
              dx |-> 0, dy |-> args.semitones],
             "moveNote", l)

\* handleTransposeRange resumes with the outcome of the command it awaited.
TransposeResume(call, failed) ==
  CASE pc = "handler" ->
         IF args.trackIndex # Undefined /\ args.slotIndex # Undefined
           THEN Await(<<"bridge", 0>>, "clip.select",
                      [trackIndex |-> toInternal(args.trackIndex),
                       slotIndex |-> toInternal(args.slotIndex)], "select", <<>>)
           ELSE Await(<<"bridge", 0>>, "clip.getSelection", <<>>, "selection", <<>>)
    [] pc = "select" ->
         IF failed THEN Raise(call.out) ELSE Sleep("selectionDelay", loc)
    [] pc = "selection" ->
         IF failed THEN Raise(call.out)
         ELSE IF NothingSelected(call.out) THEN Raise(NoSlotSelected)
         ELSE Await(<<"bridge", 0>>, "clip.getNotes", <<>>, "getNotes", loc)
    [] pc = "getNotes" ->
         IF failed THEN Raise(call.out)
         ELSE LET l == [notes |-> call.out.notes,
                        notesToMove |-> notesToMove(call.out.notes, args),
                        i |-> 0, errors |-> <<>>, completed |-> 0]
              IN IF Len(l.notesToMove) = 0
                   THEN Finish([success |-> TRUE, completed |-> 0, failed |-> 0,
                                message |-> "No notes found in specified range"], l)
                   ELSE TransposeLoop(l)
    [] pc = "moveNote" ->
         IF failed
           THEN TransposeLoop([loc EXCEPT !.errors = Append(@, [index |-> loc.i,
                                                                 error |-> call.out]),
                                          !.i = @ + 1])
           ELSE TransposeLoop([loc EXCEPT !.completed = @ + 1, !.i = @ + 1])

\* The handler of transpose_range runs to its next await or to its end.
TransposeStep ==
  /\ UNCHANGED dataVars
  /\ UNCHANGED <<regVars, extension>>
  /\ tool = "transpose_range"
  /\ ~Ended
  /\ pc # "selectionDelay"
  /\ LET call == IF awaiting # 0 THEN calls[awaiting] ELSE NewCall(<<"none", 0>>, "", <<>>)
     IN TransposeResume(call, call.st = "rejected")
  /\ UNCHANGED <<requestId, pendingRequests, socket, sockets, timers>>
  /\ UNCHANGED <<tool, daw, args, config, toolCalls>>

\* The selection delay has elapsed: the notes are asked for.
TransposeDelay ==
  /\ UNCHANGED dataVars
  /\ UNCHANGED <<regVars, extension>>
  /\ tool = "transpose_range"
  /\ pc = "selectionDelay"
  /\ Await(<<"bridge", 0>>, "clip.getNotes", <<>>, "getNotes", loc)
  /\ result' = result
  /\ UNCHANGED <<requestId, pendingRequests, socket, sockets, timers>>
  /\ UNCHANGED <<tool, daw, args, config, toolCalls>>

\* The clips transpose_range works on: notes on two steps and two keys.
NoteSets == SUBSET {<<x, y>> : x \in {0, 1}, y \in {60, 61}}

InitTranspose ==
  /\ InitChannel
  /\ tool = "none"
  /\ daw = "bitwig"
  /\ args = <<>>
  /\ pc = "idle"
  /\ awaiting = 0
  /\ loc = <<>>
  /\ result = <<>>
  /\ config = [defaultDaw |-> "bitwig"]
  /\ backend \in {[up |-> {"bitwig"}, tracks |-> <<"A", "B", "C">>, scenes |-> 1,
                    sceneCount |-> 1, content |-> {<<"A", 0>>}, selected |-> sel,
                    selection |-> sel, notes |-> n] :
                     n \in NoteSets,
                     sel \in {[trackIndex |-> -1, slotIndex |-> -1],
                              [trackIndex |-> 0, slotIndex |-> 0]}}
  /\ toolCalls = 0

TransposeNext ==
  \/ \E a \in TransposeArgs : tool = "none" /\ ToolCall("transpose_range", a)
  \/ TransposeStep
  \/ TransposeDelay
  \/ Observers

TransposeSpec == InitTranspose /\ [][TransposeNext]_vars

\* Tool calls one after the other, with or without a `daw` argument, while
\* the DAWs are started and stopped; the tool is batch_list_clips for the
\* first track.
ResolveArgs ==
  {[daw |-> e, trackIndices |-> <<1>>, trackIndex |-> Undefined] : e \in ExplicitDaws}

InitResolve ==
  /\ InitChannel
  /\ tool = "none"
  /\ daw = "bitwig"
  /\ args = <<>>
  /\ pc = "idle"
  /\ awaiting = 0
  /\ loc = <<>>
  /\ result = <<>>
  /\ config \in {[defaultDaw |-> d] : d \in Daws}
  /\ backend \in {[up |-> u, tracks |-> <<"A", "B", "C">>, scenes |-> 1, sceneCount |-> 1,
                   content |-> {<<"A", 0>>},
                   selected |-> [trackIndex |-> 0, slotIndex |-> 0],
                   selection |-> [trackIndex |-> 0, slotIndex |-> 0]] : u \in SUBSET Daws}
  /\ toolCalls = 0

ResolveNext ==
  \/ \E a \in ResolveArgs : ToolCall("batch_list_clips", a)
  \/ Resume
  \/ \E d \in Daws : BackendToggle(d)

ResolveSpec == InitResolve /\ [][ResolveNext]_vars

\* One tool call of a single-operation tool or of a batch handler, with or
\* without a `daw` argument, while the DAWs are started and stopped.
UnreachableTools == {"set_clip_length", "batch_list_clips"}

UnreachableArgs(t) ==
  IF t = "set_clip_length"
    THEN {[daw |-> e, trackIndex |-> 2, slotIndex |-> 1, lengthInBeats |-> 8] :
            e \in Daws \cup {""}}
    ELSE {[daw |-> e, trackIndices |-> l, trackIndex |-> Undefined] :
            e \in Daws \cup {""}, l \in {<<>>, <<1>>}}

UnreachableNext ==
  \/ \E t \in UnreachableTools : \E a \in UnreachableArgs(t) : tool = "none" /\ ToolCall(t, a)
  \/ Resume
  \/ \E d \in Daws : BackendToggle(d)

UnreachableSpec == InitResolve /\ [][UnreachableNext]_vars

\* errorResult(message)
errorResult(message) == [isError |-> TRUE, text |-> message]

\* A tool name the registry has no handler for.
UnknownNames == {"list_everything"}

\* The CallToolRequest handler takes a call of a tool that is not in the
\* registry: it returns errorResult without resolving a DAW.
UnknownTool(name, a) ==
  /\ UNCHANGED dataVars
  /\ UNCHANGED <<regVars, extension>>
  /\ Ended
  /\ toolCalls < MaxToolCalls
  /\ toolCalls' = toolCalls + 1
  /\ tool' = name
  /\ args' = a
  /\ pc' = "done"
  /\ awaiting' = 0
  /\ loc' = <<>>
  /\ result' = errorResult(<<"Unknown tool:", name>>)
  /\ UNCHANGED <<chanVars, daw, config, backend>>

\* get_daws: handleGetDaws probes both DAWs and returns what it found; no
\* DAW is resolved.
GetDaws(a) ==
  /\ UNCHANGED dataVars
  /\ UNCHANGED <<regVars, extension>>
  /\ Ended
  /\ toolCalls < MaxToolCalls
  /\ toolCalls' = toolCalls + 1
  /\ tool' = "get_daws"
  /\ args' = a
  /\ \E endings \in ProbeEndings :
       LET answers == [d \in Daws |-> ProbeOutcome(backend, endings[d])]
           probed == checkConnections(calls, <<"probe", toolCalls + 1>>, answers)
           found == connected(probed, <<"probe", toolCalls + 1>>)
       IN /\ calls' = probed
          /\ result' = IF ThrowingProbes(answers) # {}
                         THEN errorResult(<<"Error checking DAW connections:">> \o
                                answers[CHOOSE d \in ThrowingProbes(answers) : TRUE].out)
                         ELSE [connectedDaws |-> found, connectedCount |-> Cardinality(found),
                               defaultDaw |-> config.defaultDaw]
  /\ pc' = "done"
  /\ awaiting' = 0
  /\ loc' = <<>>
  /\ UNCHANGED <<requestId, pendingRequests, socket, sockets, timers, daw, config, backend>>

\* The list argument of a tool, "" when it has none.
ListField(t) ==
  CASE t \in {"batch_create_clips", "batch_delete_clips"} -> "clips"
    [] t \in {"batch_list_clips", "batch_delete_tracks"} -> "trackIndices"
    [] t = "batch_create_tracks" -> "tracks"
    [] OTHER -> ""

\* Calls of every tool with at most one item, with the `daw` argument a DAW,
\* left out or no DAW name.
ServerArgs(t) ==
  {[a EXCEPT !.daw = e] :
     a \in {x \in BridgeArgs(t) : ListField(t) # "" => Len(x[ListField(t)]) <= 1},
     e \in ExplicitDaws}

\* One tool call, of any name, while the DAWs are started and stopped.
ServerNext ==
  \/ \E t \in BridgeTools : \E a \in ServerArgs(t) : tool = "none" /\ ToolCall(t, a)
  \/ \E n \in UnknownNames, e \in ExplicitDaws : tool = "none" /\ UnknownTool(n, [daw |-> e])
  \/ \E e \in ExplicitDaws : tool = "none" /\ GetDaws([daw |-> e])
  \/ Resume
  \/ Delay
  \/ Observers
  \/ \E d \in Daws : BackendToggle(d)

\* The event loop runs a continuation that is ready and fires a timer that
\* is due.
ServerFairness == WF_vars(Resume) /\ WF_vars(Delay)

ServerSpec == InitResolve /\ [][ServerNext]_vars /\ ServerFairness

\* ----------------------------------------------------------- index helpers
\* The two conversions applied to a 1-based number, one after the other in
\* either order.
InitIndex ==
  /\ InitChannel
  /\ tool = "none"
  /\ daw = "bitwig"
  /\ args \in 1..MaxIndex
  /\ pc = "idle"
  /\ awaiting = 0
  /\ loc = <<>>
  /\ result = <<>>
  /\ config = [defaultDaw |-> "bitwig"]
  /\ backend = <<>>
  /\ toolCalls = 0

Convert ==
  /\ UNCHANGED dataVars
  /\ UNCHANGED <<regVars, extension>>
  /\ pc = "idle"
  /\ pc' = "done"
  /\ loc' = [internal |-> toInternal(args), user |-> toUser(args)]
  /\ result' = [user |-> toUser(toInternal(args)), internal |-> toInternal(toUser(args))]
  /\ UNCHANGED <<chanVars, tool, daw, args, awaiting, config, backend, toolCalls>>

IndexSpec == InitIndex /\ [][Convert]_vars

\* The event loop runs every callback that is due: timers fire, the events of
\* a destroyed socket are emitted, queued writes complete or fail, and every
\* connection attempt ends in 'connect' or in an error.  The backend is free
\* never to answer.
Fairness ==
  /\ WF_vars(Timeout)
  /\ WF_vars(\E s \in 1..Len(sockets) : SocketError(s))
  /\ WF_vars(\E s \in 1..Len(sockets) : SocketClose(s))
  /\ WF_vars(\E s \in 1..Len(sockets) :
               \/ SocketConnect(s)
               \/ (sockets[s].state = "connecting" /\ SocketDestroy(s, TRUE)))
  /\ WF_vars(\E c \in 1..Len(calls) : Flush(c))
  /\ WF_vars(\E c \in 1..Len(calls) : WriteError(c))

FairSpec == Init /\ [][Next]_vars /\ Fairness

\* ------------------------------------------------------ the client registry
\* DAWClientManager: one Map from DAW type to DAWClient, filled lazily.  A
\* DAWClient is known by its place in clientObjects; the calls made through
\* the manager are logged with the client they were made on as their owner.
\* new DAWClient(dawType, 'localhost', this.ports[dawType], this.timeout)
\* Its requestId starts at 0 and its pendingRequests as an empty Map.
NewClient(dawType) ==
  [dawType |-> dawType, port |-> Ports[dawType],
   requestId |-> 0, pendingRequests |-> [x \in {} |-> 0]]

\* A registry that constructs a client on every reference.
getClient_alwaysConstructs(reg, objs, d, defaultDaw) ==
  LET dawType == IF d = "" THEN defaultDaw ELSE d
      made == Append(objs, NewClient(dawType))
  IN [clients |-> [x \in DOMAIN reg \cup {dawType} |->
                     IF x = dawType THEN Len(made) ELSE reg[x]],
      clientObjects |-> made,
      client |-> Len(made)]

\* getClient(daw?): the default when no DAW is named; construct and register
\* when the Map has no entry; return the entry.
getClient(reg, objs, d, defaultDaw) ==
  LET dawType == IF d = "" THEN defaultDaw ELSE d
      has == dawType \in DOMAIN reg
      made == IF has THEN objs ELSE Append(objs, NewClient(dawType))
      set == IF has THEN reg
             ELSE [x \in DOMAIN reg \cup {dawType} |->
                     IF x = dawType THEN Len(made) ELSE reg[x]]
  IN [clients |-> set, clientObjects |-> made, client |-> set[dawType]]

\* DAWClientManager.send(method, params, daw): the call is made on the
\* client getClient returns.
ManagerSend(d) ==
  /\ Len(calls) < MaxReferences
  /\ \E got \in {getClient(clients, clientObjects, d, config.defaultDaw)} :
       /\ clients' = got.clients
       /\ clientObjects' = got.clientObjects
       /\ calls' = Append(calls, NewCall(<<"client", got.client>>, "echo",
                                         [daw |-> clientObjects'[got.client].dawType]))
  /\ UNCHANGED <<requestId, pendingRequests, socket, sockets, timers>>
  /\ UNCHANGED dataVars
  /\ UNCHANGED procVars
  /\ UNCHANGED extension

\* checkConnections(): one project.getInfo on the client of each DAW type.
CheckConnections ==
  /\ Len(calls) + 1 < MaxReferences
  /\ \E b \in {getClient(clients, clientObjects, "bitwig", config.defaultDaw)} :
       \E a \in {getClient(b.clients, b.clientObjects, "ableton", config.defaultDaw)} :
         /\ clients' = a.clients
         /\ clientObjects' = a.clientObjects
         /\ calls' = calls \o <<NewCall(<<"client", b.client>>, "project.getInfo",
                                         [daw |-> "bitwig"]),
                                 NewCall(<<"client", a.client>>, "project.getInfo",
                                         [daw |-> "ableton"])>>
  /\ UNCHANGED <<requestId, pendingRequests, socket, sockets, timers>>
  /\ UNCHANGED dataVars
  /\ UNCHANGED procVars
  /\ UNCHANGED extension

InitRegistry ==
  /\ InitChannel
  /\ tool = "none"
  /\ daw = "bitwig"
  /\ args = <<>>
  /\ pc = "idle"
  /\ awaiting = 0
  /\ loc = <<>>
  /\ result = <<>>
  /\ config \in {[defaultDaw |-> d] : d \in Daws}
  /\ backend = <<>>
  /\ toolCalls = 0

RegistryNext ==
  \/ \E d \in Daws \cup {""} : ManagerSend(d)
  \/ CheckConnections

RegistrySpec == InitRegistry /\ [][RegistryNext]_vars

\* ---------------------------------------------------- one channel per DAW
\* Two DAWClient objects side by side, each with its own id counter and its
\* own pendingRequests.  The connection of a client is taken as open; what a
\* backend writes on it reaches the data handler of that client.

\* A client whose methods work on the pendingRequests of the first client
\* ever constructed.
thisPending_shared(objs, client) == objs[1].pendingRequests

\* this.pendingRequests inside a method of `client`.
thisPending(objs, client) == objs[client].pendingRequests

\* What the backend of DAW type d answers to the request with this id.
AnswersOf(d, id) ==
  {[id |-> id, kind |-> "result", body |-> [from |-> d, echo |-> id]],
   [id |-> id, kind |-> "error",
    body |-> [code |-> -32602, message |-> <<"err", d, id>>]]}

\* DAWClientManager.send(method, params, daw) down to the write: getClient,
\* then on that client id = String(++this.requestId) and
\* this.pendingRequests.set(id, ...).
ClientSend(d) ==
  /\ Len(calls) < MaxRequests
  /\ \E got \in {getClient(clients, clientObjects, d, config.defaultDaw)} :
       LET me == got.clientObjects[got.client]
           id == String(me.requestId + 1)
           c == Len(calls) + 1
       IN /\ clients' = got.clients
          /\ clientObjects' =
               [got.clientObjects EXCEPT
                  ![got.client].requestId = @ + 1,
                  ![got.client].pendingRequests =
                     MapSet(thisPending(got.clientObjects, got.client), id, c)]
          /\ calls' = Append(calls, [NewCall(<<"client", got.client>>, "echo",
                                             [daw |-> me.dawType])
                                       EXCEPT !.id = id, !.st = "pending", !.wr = "sent"])
  /\ UNCHANGED <<requestId, pendingRequests, socket, sockets, timers>>
  /\ UNCHANGED dataVars
  /\ UNCHANGED procVars
  /\ UNCHANGED extension

\* A response line of the backend of `client` reaches the data handler of
\* that client's socket: this.handleResponse(response).  The backend answers
\* with the id of a request it was sent, or with an id it made up.
ClientResponse(client, response) ==
  /\ client \in 1..Len(clientObjects)
  /\ response \in AnswersOf(clientObjects[client].dawType, response.id)
  /\ \E r \in {handleResponse(thisPending(clientObjects, client), calls, response)} :
       /\ clientObjects' = [clientObjects EXCEPT ![client].pendingRequests = r.pending]
       /\ calls' = r.calls
  /\ UNCHANGED <<clients, requestId, pendingRequests, socket, sockets, timers>>
  /\ UNCHANGED dataVars
  /\ UNCHANGED procVars
  /\ UNCHANGED extension

\* The timeout callback of a request of `client` with this id.
ClientTimeout(client, id) ==
  /\ client \in 1..Len(clientObjects)
  /\ \E c \in 1..Len(calls) : calls[c].owner = <<"client", client>> /\ calls[c].id = id
  /\ id \in DOMAIN thisPending(clientObjects, client)
  /\ calls' = Reject(calls, thisPending(clientObjects, client)[id], <<"Request timeout">>)
  /\ clientObjects' = [clientObjects EXCEPT ![client].pendingRequests =
                                               MapDelete(thisPending(clientObjects, client), id)]
  /\ UNCHANGED <<clients, requestId, pendingRequests, socket, sockets, timers>>
  /\ UNCHANGED dataVars
  /\ UNCHANGED procVars
  /\ UNCHANGED extension

IsolationNext ==
  \/ \E d \in Daws \cup {""} : ClientSend(d)
  \/ \E client \in 1..Len(clientObjects) : \E n \in 1..MaxRequests :
       \E response \in AnswersOf(clientObjects[client].dawType, String(n)) :
         ClientResponse(client, response)
  \/ \E client \in 1..Len(clientObjects) : \E n \in 1..MaxRequests :
       ClientTimeout(client, String(n))

IsolationSpec == InitRegistry /\ [][IsolationNext]_vars

\* ------------------------------------------------- the extension's server
\* MCPServer.handleClient on one accepted connection.  A line is the text
\* between two newlines, one element per lexical element of JSON; `in` holds
\* the lines the client has written that readLine has not returned yet,
\* `read` those it has returned, `scheduled` the tasks handed to
\* host.scheduleTask that have not run, `out` the lines printed.

\* The line of a request with this id and, when it has one, this method.
RequestLine(id, method) == <<"{", id, method, "}">>

\* The methods the dispatcher knows and one it throws for.
Methods == {"project.getInfo", "clip.nothing"}
RequestLines == {RequestLine(id, m) : id \in {"1", "2"}, m \in Methods}

\* Lines that are no JSON document: a word, and the opening of an object
\* that is never closed; and the empty line.
InvalidLines == {<<"x">>, <<"{", "1">>}
ClientLines == RequestLines \cup InvalidLines \cup {<<>>}

\* gson.fromJson(text, JsonObject.class): the object of a text that is one
\* JSON object, null for the empty text, a JsonSyntaxException otherwise.
JsonNull == [null |-> TRUE]
fromJson(text) ==
  IF text = <<>> THEN [threw |-> FALSE, value |-> JsonNull]
  ELSE IF text \in RequestLines
    THEN [threw |-> FALSE, value |-> [id |-> text[2], method |-> text[3]]]
  ELSE [threw |-> TRUE, value |-> JsonNull]

\* catch (JsonSyntaxException e) { }: the builder keeps the text for the
\* next line to be appended to.
builderAfterFailure(text) == text

\* processRequest(request): the response carries the id of the request and
\* the result of the dispatcher, or the error made of what it threw.
processRequest(request) ==
  IF request.method = "project.getInfo"
    THEN [id |-> request.id, kind |-> "result"]
    ELSE [id |-> request.id, kind |-> "error", code |-> -32601]

\* The client writes a line on the connection.
ClientWrites(line) ==
  /\ Len(extension.in) + Len(extension.read) < MaxLines
  /\ extension' = [extension EXCEPT !.in = Append(@, line)]
  /\ UNCHANGED <<chanVars, regVars>>
  /\ UNCHANGED dataVars
  /\ UNCHANGED procVars

\* One pass of the while loop: readLine, append, parse; on success the
\* builder is reset and the task scheduled.
ReadLine ==
  /\ extension.in # <<>>
  /\ LET line == Head(extension.in)
         text == extension.messageBuilder \o line
         parsed == fromJson(text)
     IN extension' =
          [extension EXCEPT
             !.in = Tail(@),
             !.read = Append(@, line),
             !.messageBuilder = IF parsed.threw THEN builderAfterFailure(text) ELSE <<>>,
             !.scheduled = IF parsed.threw THEN @ ELSE Append(@, parsed.value)]
  /\ UNCHANGED <<chanVars, regVars>>
  /\ UNCHANGED dataVars
  /\ UNCHANGED procVars

\* Bitwig's thread runs the oldest scheduled task: processRequest and
\* println.  With request null, request.has throws and nothing is printed.
RunTask ==
  /\ extension.scheduled # <<>>
  /\ extension' =
       [extension EXCEPT
          !.scheduled = Tail(@),
          !.out = IF Head(extension.scheduled) = JsonNull THEN @
                  ELSE Append(@, processRequest(Head(extension.scheduled)))]
  /\ UNCHANGED <<chanVars, regVars>>
  /\ UNCHANGED dataVars
  /\ UNCHANGED procVars

ExtensionNext ==
  \/ \E line \in ClientLines : ClientWrites(line)
  \/ ReadLine
  \/ RunTask

ExtensionSpec == Init /\ [][ExtensionNext]_vars

\* ------------------------------------------------------------------ claims
Allocated(c) == calls[c].id # <<>>
TimedOut(c) == calls[c].st = "rejected" /\ calls[c].out = <<"Request timeout">>

\* C1: correlation correctness.  Whatever the order in which the answers
\* arrive, a caller settled by a response got the answer to its own request:
\* the result (or the error) the backend computed for the request bearing the
\* caller's id, never the answer to another caller's request.
C1_Correlation ==
  \A c \in 1..Len(calls) :
    /\ calls[c].st = "resolved" =>
         /\ calls[c].out = <<"re", calls[c].method, calls[c].id>>
         /\ calls[c].answers > 0
    /\ (calls[c].st = "rejected" /\ calls[c].out[1] = "err") =>
         /\ calls[c].out = <<"err", calls[c].method, calls[c].id>>
         /\ calls[c].answers > 0
    /\ calls[c].resolves > 0 => calls[c].answers > 0

\* Two requests are outstanding on the channel and the second one is answered
\* first.
C1_Witness ==
  \E a, b \in 1..Len(calls) :
    /\ calls[a].id = String(1) /\ calls[a].st = "pending" /\ calls[a].wr = "sent"
    /\ calls[b].id = String(2) /\ calls[b].st = "resolved"

\* C2: pending-entry invariant.  Ids are allocated in strictly increasing
\* order, so no two calls share one; the map holds exactly the entries of the
\* outstanding requests: an entry is there while its call is unsettled and is
\* gone once the call has settled (removed once, by the response, the write
\* error or the timeout); and no call is both resolved and rejected.
C2_PendingEntryInvariant ==
  /\ \A c, d \in 1..Len(calls) :
        (Allocated(c) /\ Allocated(d) /\ c # d) => calls[c].id # calls[d].id
  /\ \A c \in 1..Len(calls) :
        Allocated(c) => \E n \in 1..requestId : calls[c].id = String(n)
  /\ \A id \in DOMAIN pendingRequests :
        /\ pendingRequests[id] \in 1..Len(calls)
        /\ calls[pendingRequests[id]].id = id
  /\ \A c \in 1..Len(calls) :
        /\ calls[c].st = "pending" => calls[c].id \in DOMAIN pendingRequests
        /\ (Allocated(c) /\ calls[c].st \notin Unsettled) =>
               calls[c].id \notin DOMAIN pendingRequests
        /\ ~(calls[c].resolves > 0 /\ calls[c].rejects > 0)
        /\ calls[c].resolves <= 1

\* C3: timeout isolation.  When the timer of a request that is still pending
\* fires, the request is rejected with the timeout error and exactly its entry
\* leaves the map.  From then on the call stays as it is, and a response frame
\* that arrives for it later settles nobody and changes no pending entry.
C3_TimeoutIsolation ==
  [][ /\ \A id \in {timers[k] : k \in 1..Len(timers)} :
           (timers' = Tail(timers) /\ id = Head(timers) /\ id \in DOMAIN pendingRequests) =>
             /\ pendingRequests' = MapDelete(pendingRequests, id)
             /\ calls'[pendingRequests[id]].st = "rejected"
             /\ calls'[pendingRequests[id]].out = <<"Request timeout">>
             /\ \A d \in 1..Len(calls) :
                   d # pendingRequests[id] => calls'[d] = calls[d]
      /\ \A c \in 1..Len(calls) :
           TimedOut(c) =>
             /\ calls'[c].st = calls[c].st
             /\ calls'[c].out = calls[c].out
             /\ calls'[c].resolves = 0
             /\ calls[c].id \notin DOMAIN pendingRequests'
             /\ calls'[c].answers > calls[c].answers =>
                   /\ pendingRequests' = pendingRequests
                   /\ \A d \in 1..Len(calls) : d # c => calls'[d] = calls[d]
    ]_vars

\* A request timed out and the backend's answer to it arrived afterwards.
C3_Witness ==
  \E c \in 1..Len(calls) :
    /\ TimedOut(c)
    /\ calls[c].answers > 0
    /\ calls[c].resolves = 0

\* C4: every send() settles and leaves nothing behind.  Under Fairness, each
\* call that was made is eventually resolved or rejected with its entry gone
\* from the pending map.
C4_EverySendSettles ==
  \A c \in 1..MaxCalls :
    [](c <= Len(calls) =>
         <>(/\ c <= Len(calls)
            /\ calls[c].st \notin Unsettled
            /\ calls[c].id \notin DOMAIN pendingRequests))

\* The send() calls a batch handler made, and those made for list position k.
BatchCalls == {c \in 1..Len(calls) : calls[c].owner[1] = "batch"}
ItemCalls(k) == {c \in BatchCalls : calls[c].owner[2] = k}

\* C5: batch serialization.  Of the requests one batch handler call issues,
\* at most one is in flight at any moment: a request is issued only after
\* every earlier request of the batch has been resolved or rejected (by a
\* response, an error or the timeout).
C5_BatchSerialization ==
  /\ \A c, d \in BatchCalls : c < d => calls[c].st \notin Unsettled
  /\ Cardinality({c \in BatchCalls : calls[c].st \in Unsettled}) <= 1

\* A sub-operation timed out and the next one is in flight.
C5_Witness ==
  \E c, d \in BatchCalls :
    /\ c < d
    /\ calls[c].owner[2] >= 1
    /\ TimedOut(c)
    /\ calls[d].st = "pending" /\ calls[d].wr = "sent"

\* Every command of list position k was sent and resolved.
Succeeded(k) ==
  /\ Cardinality(ItemCalls(k)) = Len(Work(tool, args)[k].cmds)
  /\ \A c \in ItemCalls(k) : calls[c].st = "resolved"

\* Call c carries the command of the element at its list position.
ForItem(c) ==
  LET item == args.items[calls[c].owner[2]]
  IN CASE tool = "batch_set_track_properties" -> calls[c].arg.index = item.index - 1
       [] tool = "batch_operations" ->
            calls[c].method = "clip.transpose" /\ calls[c].arg.semitones = item.semitones
       [] tool = "batch_set_notes" ->
            calls[c].arg.y = item.y /\ calls[c].arg.x % 25 = 0
       [] OTHER -> calls[c].arg = item

C7_SuccessIffNoneFailed ==
  (tool \in BatchTools /\ pc = "done") =>
    /\ result.success = (result.failed = 0)
    /\ "errors" \in DOMAIN result => Len(result.errors) > 0
    /\ result.failed > 0 => "errors" \in DOMAIN result

\* C8: the errors list has exactly one entry per failed item, tagged with the
\* 0-based position of the item in the caller's list, in ascending order, and
\* no entry names an item that succeeded; for every batch handler.
C8_ErrorsPositional ==
  (tool \in BatchTools /\ pc = "done") =>
    LET errs == IF "errors" \in DOMAIN result THEN result.errors ELSE <<>>
    IN /\ Len(errs) = result.failed
       /\ \A k \in 1..Len(errs) : errs[k].index \in 0..(Len(args.items) - 1)
       /\ \A k, m \in 1..Len(errs) : k < m => errs[k].index < errs[m].index
       /\ (tool # "batch_delete_tracks" /\ daw = "bitwig") =>
            \A k \in 1..Len(errs) : ~Succeeded(errs[k].index + 1)

\* The calls findEmptySlotsWithAutoCreate made: its first query, its
\* clip.createScene commands, its repeated query.
FirstQuery == {c \in 1..Len(calls) : calls[c].owner = <<"auto", 1>>}
Expansions == {c \in 1..Len(calls) : calls[c].method = "clip.createScene"}
SecondQuery == {c \in 1..Len(calls) : calls[c].owner = <<"auto", 3>>}

\* C9: auto-remediation bound.  One invocation asking for N slots issues
\* clip.createScene at most once; it issues it exactly when the first query
\* found fewer than N, with count = N - found; and never a second time, even
\* when the repeated query still falls short.
C9_ExpansionBound ==
  tool = AutoCreate =>
    /\ Cardinality(Expansions) <= 1
    /\ \A c \in Expansions : \E q \in FirstQuery :
         /\ calls[q].st = "resolved"
         /\ calls[q].out.found < args.count
         /\ calls[c].arg.count = args.count - calls[q].out.found
    /\ \A q \in FirstQuery :
         (calls[q].st = "resolved" /\ pc # "findEmptySlots") =>
            (Expansions # {} <=> calls[q].out.found < args.count)

\* Two slots were asked for, one was found, one scene was requested, and the
\* repeated query still found too few: the function returned after the single
\* expansion.
C9_Witness ==
  /\ tool = AutoCreate
  /\ pc = "done"
  /\ args.count = 2
  /\ Cardinality(Expansions) = 1
  /\ \E q \in FirstQuery : calls[q].st = "resolved" /\ calls[q].out.found = 1
  /\ \E r \in SecondQuery : calls[r].st = "resolved" /\ calls[r].out.found < args.count

FullOrder == <<"query", "expand", "delay", "query">>

\* C10 as stated: once the expansion command was issued, the invocation goes
\* through query, expand, delay, query and returns the result of the second
\* query.
C10_AlwaysRequeries ==
  (tool = AutoCreate /\ pc = "done" /\ Expansions # {}) =>
    /\ loc.trace = FullOrder
    /\ \E r \in SecondQuery :
         /\ calls[r].st = "resolved"
         /\ result = calls[r].out @@ [scenesCreated |-> loc.scenesCreated]

\* C10, amended: the events of an invocation are a prefix of query, expand,
\* delay, query.  When the expansion command answers with success, the
\* function waits the delay and repeats the query exactly once, and returns
\* the result of the second query if that query succeeds, the result of the
\* first otherwise.  When the expansion command fails or reports no success,
\* there is no delay and no second query, and the first result is returned.
C10_RequeriesAfterSuccess ==
  tool = AutoCreate =>
    /\ \E k \in 0..Len(FullOrder) : loc.trace = SubSeq(FullOrder, 1, k)
    /\ Cardinality(SecondQuery) <= 1
    /\ (pc = "done" /\ Expansions # {}) =>
         \A e \in Expansions, q \in FirstQuery :
           IF calls[e].st = "resolved" /\ calls[e].out.success
             THEN /\ loc.trace = FullOrder
                  /\ \E r \in SecondQuery :
                       result = (IF calls[r].st = "resolved" THEN calls[r].out ELSE calls[q].out)
                                  @@ [scenesCreated |-> calls[e].out.created]
             ELSE /\ loc.trace = <<"query", "expand">>
                  /\ SecondQuery = {}
                  /\ result = calls[q].out @@ [scenesCreated |-> 0]

\* The expansion succeeded, the delay passed, and the second query's result,
\* different from the first, was returned.
C10_Witness ==
  /\ tool = AutoCreate
  /\ pc = "done"
  /\ loc.trace = FullOrder
  /\ \E q \in FirstQuery, r \in SecondQuery :
       /\ calls[r].st = "resolved"
       /\ calls[r].out # calls[q].out
       /\ result = calls[r].out @@ [scenesCreated |-> loc.scenesCreated]

\* The commands the handler sent for clip k of the list (k = 0: before the
\* loop, and the one clip of a call without clips).
BridgeCalls(k) == {c \in 1..Len(calls) : calls[c].owner = <<"bridge", k>>}
QueriesOf(k) == {c \in BridgeCalls(k) : calls[c].method = "clip.findEmptySlots"}
ExpansionsOf(k) == {c \in BridgeCalls(k) : calls[c].method = "clip.createScene"}
FirstQueryOf(k) == CHOOSE c \in QueriesOf(k) : \A d \in QueriesOf(k) : c <= d
RetryOf(k) == CHOOSE c \in QueriesOf(k) : \A d \in QueriesOf(k) : c >= d

\* The corrective pass for clip k is over and left no slot: the retried query
\* was answered with nothing found, or the expansion command failed.
StillShort(k) ==
  \/ /\ Cardinality(QueriesOf(k)) = 2
     /\ awaiting # RetryOf(k)
     /\ calls[RetryOf(k)].st = "resolved"
     /\ calls[RetryOf(k)].out.found = 0
  \/ \E x \in ExpansionsOf(k) : awaiting # x /\ calls[x].st = "rejected"

\* The scene count of the last capacity query that was answered for clip k.
FinalCapacity(k) ==
  IF Cardinality(QueriesOf(k)) = 2 /\ calls[RetryOf(k)].st = "resolved"
    THEN calls[RetryOf(k)].out.sceneCount
    ELSE calls[FirstQueryOf(k)].out.sceneCount

\* The error entries the handler has collected, or returned.
ErrorsSoFar ==
  CASE pc = "done" -> OrDefault(result, "errors", <<>>)
    [] pc = "thrown" -> <<>>
    [] OTHER -> loc.errors

ProbesOf(n) == {c \in 1..Len(calls) : calls[c].owner = <<"probe", n>>}
AnsweredOf(n) == {calls[c].arg.daw : c \in {p \in ProbesOf(n) : calls[p].st = "resolved"}}

\* C12: backend resolution rule.  The DAW a tool call runs against is the one
\* it names, and then no probe was sent; for a call that names none (or no
\* valid one) it is the one DAW that answered the probe when exactly one did,
\* whatever the configured default, and the configured default when both or
\* neither answered.
C12_ResolutionRule ==
  (tool # "none" /\ toolCalls >= 1) =>
    IF args.daw \in {"bitwig", "ableton"}
      THEN daw = args.daw /\ ProbesOf(toolCalls) = {}
      ELSE IF Cardinality(AnsweredOf(toolCalls)) = 1
        THEN daw \in AnsweredOf(toolCalls)
        ELSE daw = config.defaultDaw

\* A call naming no DAW ran against Ableton, the only one to answer, with
\* Bitwig the configured default.
C12_Witness ==
  /\ tool # "none"
  /\ toolCalls = 1
  /\ args.daw = ""
  /\ config.defaultDaw = "bitwig"
  /\ AnsweredOf(1) = {"ableton"}
  /\ daw = "ableton"
  /\ pc = "done"

\* The DAW a tool call taken in this step resolves to, from its own probes.
FreshResolution ==
  LET mine == {c \in (Len(calls) + 1)..Len(calls') : calls'[c].owner = <<"probe", toolCalls'>>}
      answered == {calls'[c].arg.daw : c \in {p \in mine : calls'[p].st = "resolved"}}
  IN /\ Len(calls') = Len(calls) + 2
     /\ \A d \in {"bitwig", "ableton"} :
          /\ Cardinality({c \in mine : calls'[c].arg.daw = d}) = 1
          /\ d \in answered => d \in backend.up
     /\ daw' = IF Cardinality(answered) = 1 THEN CHOOSE d \in answered : TRUE
               ELSE config.defaultDaw

\* C13: reachability is never cached.  Every step that takes a tool call
\* naming no DAW sends one new probe to each DAW, a probe is answered only by
\* a DAW that is up at that moment, and the call resolves by the answers to
\* these probes alone, whatever earlier calls found.
C13_NeverCached ==
  [][(toolCalls' = toolCalls + 1 /\ args'.daw \notin {"bitwig", "ableton"}) => FreshResolution]_vars

\* Two calls naming no DAW: Bitwig alone answered the first, Ableton alone
\* the second, which resolved to Ableton although Bitwig is the default.
C13_Witness ==
  /\ toolCalls = 2
  /\ config.defaultDaw = "bitwig"
  /\ AnsweredOf(1) = {"bitwig"}
  /\ AnsweredOf(2) = {"ableton"}
  /\ daw = "ableton"
  /\ backend.up = {"ableton"}

\* C14: address round trip.  For every 1-based number n, converting it to
\* internal and back to user gives n, and converting it to user and back to
\* internal gives n.
C14_RoundTrip ==
  (tool = "none" /\ pc = "done") => result.user = args /\ result.internal = args

\* The largest number has gone through both round trips, by way of the
\* internal index one below it and the user index one above it.
C14_Witness ==
  /\ tool = "none"
  /\ pc = "done"
  /\ args = MaxIndex
  /\ loc.internal = MaxIndex - 1
  /\ loc.user = MaxIndex + 1
  /\ result.user = MaxIndex

\* The commands a handler sent (the probes of resolveDaw left aside).
Commands == {c \in 1..Len(calls) : calls[c].owner[1] = "bridge"}

\* The 1-based track and slot number the caller gave for the item command c
\* belongs to; Undefined when it gave none, or when resolveClipIndices, not
\* given both, takes the selection.
CallerTrack(c) ==
  LET k == calls[c].owner[2]
  IN CASE tool = "batch_create_clips" -> IF k = 0 THEN Undefined ELSE args.clips[k].trackIndex
       [] tool = "batch_delete_clips" ->
            IF k = 0 \/ args.clips[k].slotIndex = Undefined THEN Undefined
            ELSE args.clips[k].trackIndex
       [] tool = "batch_list_clips" ->
            IF Len(args.trackIndices) > 0 THEN args.trackIndices[k] ELSE args.trackIndex
       [] tool = "set_clip_length" -> args.trackIndex
       [] OTHER -> Undefined
CallerSlot(c) ==
  LET k == calls[c].owner[2]
  IN CASE tool = "batch_create_clips" -> IF k = 0 THEN Undefined ELSE args.clips[k].slotIndex
       [] tool = "batch_delete_clips" ->
            IF k = 0 \/ args.clips[k].trackIndex = Undefined THEN Undefined
            ELSE args.clips[k].slotIndex
       [] tool = "set_clip_length" -> args.slotIndex
       [] OTHER -> Undefined

\* The selection the backend reported last before command c.
SelectionBefore(c) ==
  LET asked == {s \in Commands : s < c /\ calls[s].method = "clip.getSelection"
                                        /\ calls[s].st = "resolved"}
  IN calls[CHOOSE s \in asked : \A t \in asked : t <= s].out

\* The free slots the backend reported before command c.
ReportedFree(c) ==
  {calls[q].out.emptySlots[1] :
     q \in {x \in Commands : x < c /\ calls[x].method = "clip.findEmptySlots"
                                  /\ calls[x].st = "resolved" /\ calls[x].out.found > 0}}

\* Command c carries the caller's numbers less one, or what the backend
\* reported, as it was.
ForwardedRight(c) ==
  LET a == calls[c].arg
      has(f) == calls[c].method \notin {"clip.getSelection", "clip.getSceneCount"}
                /\ f \in DOMAIN a
  IN /\ has("trackIndex") =>
          IF CallerTrack(c) # Undefined THEN a.trackIndex = CallerTrack(c) - 1
          ELSE a.trackIndex = SelectionBefore(c).trackIndex
     /\ has("slotIndex") =>
          IF CallerSlot(c) # Undefined THEN a.slotIndex = CallerSlot(c) - 1
          ELSE IF tool = "batch_create_clips" THEN a.slotIndex \in ReportedFree(c)
          ELSE a.slotIndex = SelectionBefore(c).slotIndex
     /\ calls[c].method = "track.delete" =>
          \E k \in 1..Len(args.trackIndices) : a.index = args.trackIndices[k] - 1
     /\ (calls[c].method = "track.create" /\ has("position")) =>
          LET given == args.tracks[calls[c].owner[2]].position
          IN a.position = IF given = -1 THEN -1 ELSE given - 1

\* The numbers in the returned result are those of the backend plus one.
ReturnedRight ==
  CASE tool = "batch_list_clips" /\ "tracks" \in DOMAIN result ->
         \A r \in 1..Len(result.tracks) :
           \E c \in Commands :
             /\ calls[c].method = "clip.list" /\ calls[c].st = "resolved"
             /\ result.tracks[r].trackIndex = calls[c].out.trackIndex + 1
             /\ Len(result.tracks[r].clips) = Len(calls[c].out.clips)
             /\ \A j \in 1..Len(calls[c].out.clips) :
                  result.tracks[r].clips[j].slotIndex = calls[c].out.clips[j].slotIndex + 1
    [] tool = "batch_create_clips" /\ "createdClips" \in DOMAIN result ->
         \A r \in 1..Len(result.createdClips) :
           \E c \in Commands :
             /\ calls[c].method = "clip.create" /\ calls[c].st = "resolved"
             /\ result.createdClips[r].trackIndex = calls[c].arg.trackIndex + 1
             /\ result.createdClips[r].slotIndex = calls[c].arg.slotIndex + 1
    [] tool = "batch_delete_tracks" /\ "errors" \in DOMAIN result ->
         \A e \in 1..Len(result.errors) :
           \E c \in Commands :
             /\ calls[c].st = "rejected"
             /\ result.errors[e].index = calls[c].arg.index + 1
    [] tool = "batch_create_tracks" ->
         \A r \in 1..Len(result.createdIndices) :
           \E c \in Commands : calls[c].st = "resolved" /\ "index" \in DOMAIN calls[c].out
                               /\ result.createdIndices[r] = calls[c].out.index + 1
    [] OTHER -> TRUE

SelectionQueries(k) == {c \in BridgeCalls(k) : calls[c].method = "clip.getSelection"}
Deletions(k) == {c \in BridgeCalls(k) : calls[c].method = "clip.delete"}

\* C16: resolveClipIndices.  For a clip given by trackIndex and slotIndex the
\* indices used are (trackIndex - 1, slotIndex - 1) and the backend is not
\* asked for the selection; for a clip given by neither, the selection is
\* asked for once and the address the backend reports is used as it is.
C16_ResolveClipIndices ==
  tool = "batch_delete_clips" =>
    \A k \in 0..Len(args.clips) :
      LET clip == IF k = 0 THEN [trackIndex |-> Undefined, slotIndex |-> Undefined]
                  ELSE args.clips[k]
      IN IF clip.trackIndex # Undefined /\ clip.slotIndex # Undefined
           THEN /\ SelectionQueries(k) = {}
                /\ \A c \in Deletions(k) :
                     calls[c].arg = [trackIndex |-> clip.trackIndex - 1,
                                     slotIndex |-> clip.slotIndex - 1]
           ELSE (clip.trackIndex = Undefined /\ clip.slotIndex = Undefined) =>
                /\ BridgeCalls(k) # {} => Cardinality(SelectionQueries(k)) = 1
                /\ \A c \in Deletions(k) :
                     \E q \in SelectionQueries(k) :
                       /\ q < c
                       /\ calls[q].st = "resolved"
                       /\ calls[c].arg = [trackIndex |-> calls[q].out.trackIndex,
                                          slotIndex |-> calls[q].out.slotIndex]

\* Two clips were deleted: the first, given as track 1 slot 2, at (0, 1)
\* without a selection query; the second, not given, at the reported
\* selection.
C16_Witness ==
  /\ tool = "batch_delete_clips"
  /\ pc = "done"
  /\ Len(args.clips) = 2
  /\ args.clips[1] = [trackIndex |-> 1, slotIndex |-> 2]
  /\ args.clips[2] = [trackIndex |-> Undefined, slotIndex |-> Undefined]
  /\ result.completed = 2
  /\ SelectionQueries(1) = {}
  /\ Cardinality(SelectionQueries(2)) = 1
  /\ \E c \in Deletions(2) : calls[c].arg = [trackIndex |-> 0, slotIndex |-> 1]

\* The selection queries of the tool call that reported no selected slot.
ReportedNone ==
  {c \in BatchCalls : /\ calls[c].method = "clip.getSelection"
                      /\ calls[c].st = "resolved"
                      /\ (calls[c].out.trackIndex = -1 \/ calls[c].out.slotIndex = -1)}

Selects == {c \in BatchCalls : calls[c].method = "clip.select"}
Dependent == {c \in BatchCalls : calls[c].method \notin {"clip.select", "clip.getSelection"}}

TracksBefore == <<"A", "B", "C">>
TracksOf(seq) == {seq[n] : n \in 1..Len(seq)}

\* C19: when batch_delete_tracks, as the first tool call of the session, has
\* returned with every deletion successful, the tracks gone from the project
\* are exactly the tracks the caller's numbers named before the call.
C19_RemovesNamedTracks ==
  (/\ tool = "batch_delete_tracks"
   /\ toolCalls = 1
   /\ pc = "done"
   /\ result.failed = 0) =>
    TracksOf(TracksBefore) \ TracksOf(backend.tracks) =
      {TracksBefore[n] : n \in TracksOf(args.trackIndices) \cap 1..Len(TracksBefore)}

\* batch_create_clips was called without clips; what it sent for its one clip.
ZeroItem == tool = "batch_create_clips" /\ NoClips
Creates == {c \in BridgeCalls(0) : calls[c].method = "clip.create"}
CursorQueries == {c \in BridgeCalls(0) : calls[c].method = "clip.getSelection"}
CountQueries == {c \in BridgeCalls(0) : calls[c].method = "clip.getSceneCount"}

\* The slot the search for clip 0 starts from: the selected slot, or slot 0
\* when the selected slot is not below the scene count reported.
SearchStart(q, n) ==
  IF calls[q].out.slotIndex >= calls[n].out.sceneCount THEN 0 ELSE calls[q].out.slotIndex

\* The clip.create c is on the selected track, at the first slot of the last
\* answer to a search from SearchStart that found one.
CreateRight(c) ==
  \E q \in CursorQueries, n \in CountQueries, f \in QueriesOf(0) :
    /\ q < n /\ n < f /\ f < c
    /\ calls[q].st = "resolved" /\ calls[n].st = "resolved" /\ calls[f].st = "resolved"
    /\ \A g \in QueriesOf(0) :
         /\ calls[g].arg = [trackIndex |-> calls[q].out.trackIndex,
                            startSlot |-> SearchStart(q, n), count |-> 1]
         /\ (g > f => calls[g].st # "resolved")
    /\ calls[f].out.found >= 1
    /\ calls[f].out.emptySlots[1] >= SearchStart(q, n)
    /\ calls[c].arg = [trackIndex |-> calls[q].out.trackIndex,
                       slotIndex |-> calls[f].out.emptySlots[1], lengthInBeats |-> 4]

\* Every command the call sent was answered, and a slot was selected.
AllAnswered ==
  /\ \A c \in BridgeCalls(0) : calls[c].st = "resolved"
  /\ \A q \in CursorQueries : calls[q].out.trackIndex >= 0 /\ calls[q].out.slotIndex >= 0

Armed == {timers[k] : k \in 1..Len(timers)}

\* C21: once the response to a request has been handled (its entry removed and
\* its caller settled by the response), no timer of that request is armed.
C21_TimerCancelled ==
  \A c \in 1..Len(calls) :
    (/\ calls[c].answers > 0
     /\ calls[c].resolves + calls[c].rejects > 0
     /\ calls[c].out # <<"Request timeout">>
     /\ calls[c].id \notin DOMAIN pendingRequests) =>
      calls[c].id \notin Armed

\* C22: a timeout is request-scoped.  The step in which a request's timer
\* fires removes no pending entry but that request's, changes no other call,
\* and leaves the connection as it was: this.socket and every socket keep
\* their state, so a channel that was connected still is; and a send() made
\* on a connected channel after one of its requests timed out opens no new
\* connection: its request is registered and written on that same connection.
C22_TimeoutRequestScoped ==
  /\ [][(timers # <<>> /\ timers' = Tail(timers)) =>
          /\ DOMAIN pendingRequests' = DOMAIN pendingRequests \ {Head(timers)}
          /\ \A id \in DOMAIN pendingRequests' : pendingRequests'[id] = pendingRequests[id]
          /\ \A c \in 1..Len(calls) : calls[c].id # Head(timers) => calls'[c] = calls[c]
          /\ socket' = socket
          /\ sockets' = sockets
          /\ isConnected' = isConnected]_vars
  /\ [][(/\ Len(calls') = Len(calls) + 1
         /\ isConnected
         /\ \E c \in 1..Len(calls) : TimedOut(c) /\ calls[c].sock = socket) =>
          /\ sockets' = sockets
          /\ socket' = socket
          /\ calls'[Len(calls')].sock = socket
          /\ calls'[Len(calls')].wr = "queued"
          /\ calls'[Len(calls')].st = "pending"]_vars

\* Request 1 timed out with request 2 outstanding; request 2, written on the
\* same connection, was answered afterwards and the connection is still open.
C22_Witness ==
  /\ Len(calls) = 2
  /\ calls[1].st = "rejected" /\ calls[1].out = <<"Request timeout">>
  /\ calls[2].st = "resolved"
  /\ calls[2].sock = calls[1].sock
  /\ Len(sockets) = 1
  /\ isConnected
  /\ Armed = {}

\* The ids of the pending entries the line answers: the id of the response
\* object the line is the text of, when that id is pending.
AnswersTo(line, pending) ==
  {r.id : r \in {x \in Responses : Stringify(x) = Trim(line) /\ x.id \in DOMAIN pending}}

\* The entries a step adds to the log of lines, and the chunk a 'data' event
\* delivers in it.
NewEntries == {k \in 1..Len(dataLog') : k > Len(dataLog)}
Delivered == SubSeq(inbound, 1, Len(inbound) - Len(inbound'))

\* C23: malformed and uncorrelatable lines are dropped.  In every 'data' event
\* each complete line of the chunk is gone through, none makes an exception
\* leave handleData, and only a line that is the text of a response with a
\* pending id has any effect: a call changes only when such a line answers
\* it, and the pending map loses exactly the ids so answered.  A chunk with
\* none of them leaves the calls and the map as they were.
C23_MalformedDropped ==
  [][Len(inbound') < Len(inbound) =>
       LET answered == UNION {AnswersTo(dataLog'[k].line, pendingRequests) : k \in NewEntries}
       IN /\ Cardinality(NewEntries) = Newlines(Delivered)
          /\ \A k \in NewEntries : dataLog'[k].outcome \in {"blank", "caught", "handled"}
          /\ \A k \in 1..Len(dataLog) : dataLog'[k] = dataLog[k]
          /\ \A c \in 1..Len(calls) : calls[c].id \notin answered => calls'[c] = calls[c]
          /\ DOMAIN pendingRequests' = DOMAIN pendingRequests \ answered
          /\ \A id \in DOMAIN pendingRequests' : pendingRequests'[id] = pendingRequests[id]
          /\ answered = {} => calls' = calls /\ pendingRequests' = pendingRequests]_vars

\* One chunk brought a line that is no JSON and, after it, the answer to
\* request 1: the first was caught, the second resolved call 1.
C23_Witness ==
  /\ Len(dataLog) = 2
  /\ dataLog[1].chunk = dataLog[2].chunk
  /\ dataLog[1].line = <<"x">>
  /\ dataLog[1].outcome = "caught"
  /\ dataLog[2].outcome = "handled"
  /\ AnswersTo(dataLog[2].line, [x \in {String(1)} |-> 1]) = {String(1)}
  /\ calls[1].st = "resolved"
  /\ pendingRequests = [x \in {} |-> 0]

\* The connection attempt of call c failed: connect() rejected its send().
ConnectFailed(c) == calls[c].st = "rejected" /\ calls[c].out = <<"connect error">>

\* C24: a send() whose connection attempt failed has registered no pending
\* entry and leaves the channel disconnected; when the next send() has made
\* its own connection attempt and that attempt has succeeded, its request was
\* registered and written on the new connection.
C24_FailedConnect ==
  \A c \in 1..Len(calls) :
    ConnectFailed(c) =>
      /\ calls[c].id = <<>>
      /\ \A id \in DOMAIN pendingRequests : pendingRequests[id] # c
      /\ Len(calls) = c => ~isConnected
      /\ (/\ Len(calls) > c
          /\ sockets[calls[c + 1].sock].by = c + 1
          /\ sockets[calls[c + 1].sock].state = "open"
          /\ calls[c + 1].st # "connecting") =>
           /\ calls[c + 1].id # <<>>
           /\ calls[c + 1].wr # "none"
           /\ calls[c + 1].out # <<"TypeError">>

\* C25: the registry holds at most one client per DAW type, no DAW type has
\* ever had a second client constructed for it, and every call that targets
\* a DAW was made on the one client registered for it; a reference to a
\* DAW type that is already registered constructs nothing and leaves the
\* registered client in place.
C25_RegistryReuse ==
  /\ \A i, j \in 1..Len(clientObjects) :
       clientObjects[i].dawType = clientObjects[j].dawType => i = j
  /\ \A d \in DOMAIN clients :
       /\ clients[d] \in 1..Len(clientObjects)
       /\ clientObjects[clients[d]].dawType = d
  /\ \A c \in 1..Len(calls) :
       calls[c].owner[1] = "client" =>
         /\ calls[c].arg.daw \in DOMAIN clients
         /\ calls[c].owner[2] = clients[calls[c].arg.daw]

\* two sends and a probe round have all used the one client of the default DAW
C25_Witness ==
  /\ Len(clientObjects) = 2
  /\ config.defaultDaw = "ableton"
  /\ Cardinality({c \in 1..Len(calls) : calls[c].owner = <<"client", clients["ableton"]>>}) >= 3
  /\ \E c \in 1..Len(calls) : calls[c].method = "project.getInfo"

\* C26: a tool call that lacks its required list argument ends with an error
\* and no request frame of it has been written to a backend.
C26_FailFast ==
  (tool \in RequiredListTools /\ "items" \notin DOMAIN args) =>
    \A c \in 1..Len(calls) : calls[c].wr # "sent"

\* The message of the error object the backend answers call c with.
BackendMessage(c) ==
  (CHOOSE e \in ErrorsOf(calls[c].id, calls[c].method, calls[c].arg) : TRUE).message

\* The error entries a batch handler has collected, or returned.
BatchErrors ==
  CASE pc = "done" -> OrDefault(result, "errors", <<>>)
    [] pc = "loop" -> loc.errors
    [] OTHER -> <<>>

\* The commands of the items of a batch that the backend answered with an
\* error and whose rejection the handler has caught.
AnsweredWithError ==
  {c \in 1..Len(calls) : /\ calls[c].owner[1] = "batch"
                          /\ calls[c].owner[2] # 0
                          /\ calls[c].st = "rejected"
                          /\ calls[c].answers > 0
                          /\ calls[c].out # <<"Request timeout">>
                          /\ c # awaiting}

\* The index the errors entry of call c is pushed with.
EntryIndex(c) ==
  IF calls[c].owner[2] = -1 THEN 0 ELSE Work(tool, args)[calls[c].owner[2]].index

\* C27: a pending request the backend answers with an error object is
\* rejected with exactly the message of that object, and the errors entry of
\* the batch item whose command was answered so carries the same message.
C27_ErrorVerbatim ==
  /\ [][\A c \in 1..Len(calls) :
          (/\ calls[c].id \in DOMAIN pendingRequests
           /\ calls'[c].answers = calls[c].answers + 1
           /\ calls'[c].st = "rejected") =>
             calls'[c].out = BackendMessage(c)]_vars
  /\ [](tool \in BatchTools =>
         \A c \in AnsweredWithError :
           \E k \in 1..Len(BatchErrors) :
             /\ BatchErrors[k].index = EntryIndex(c)
             /\ BatchErrors[k].error = BackendMessage(c))

\* the note of a batch_set_notes was refused by the backend after the clip
\* was selected: its entry quotes the backend
C27_Witness ==
  /\ tool = "batch_set_notes"
  /\ pc = "done"
  /\ "items" \in DOMAIN args
  /\ calls[1].method = "clip.select" /\ calls[1].st = "resolved"
  /\ \E c \in AnsweredWithError : calls[c].owner = <<"batch", 1>>
  /\ result.errors = <<[index |-> 0, error |-> <<"err", "clip.setNote", String(2)>>]>>

\* C28: a tool call that has ended after the DAW it was addressed to refused
\* the connection of every command returned an error whose text names that
\* DAW, its extension and its port.
C28_Remediation ==
  (/\ tool \in UnreachableTools
   /\ pc \in {"done", "thrown"}
   /\ Commands # {}
   /\ \A c \in Commands : calls[c].st = "rejected" /\ calls[c].out = <<"connect ECONNREFUSED">>) =>
    result = [isError |-> TRUE, text |-> HelpText(daw)]

\* A structured error payload, and a payload that is none.
IsErrorPayload(r) == DOMAIN r = {"isError", "text"} /\ r.isError

IsSuccessPayload(r) == r # <<>> /\ "isError" \notin DOMAIN r /\ "thrown" \notin DOMAIN r

\* C29: every tool call ends, and it ends with a success payload or with a
\* structured error payload: what a handler throws is returned as an error
\* payload and nothing is left as an exception.
C29_NothingFatal ==
  /\ [](pc = "thrown" => IsErrorPayload(result))
  /\ [](pc = "done" => (IsErrorPayload(result) \/ IsSuccessPayload(result)))
  /\ (tool # "none" ~> pc \in {"done", "thrown"})

\* a handler threw with both DAWs down and the caller got the help text
C29_Witness ==
  /\ tool = "set_clip_length"
  /\ pc = "thrown"
  /\ backend.up = {}
  /\ result = [isError |-> TRUE, text |-> HelpText(config.defaultDaw)]

\* C30: a send() call hands its frame to the socket at most once.  The write
\* of a call goes from not written to written and from there to flushed or
\* failed, and never back; the id of a call, once allocated, stays; a call
\* that was rejected before its frame was written never writes; and the
\* channel has allocated no more ids than there were send() calls.
C30_NoRetry ==
  /\ [][\A c \in 1..Len(calls) :
          /\ calls[c].wr = "queued" => calls'[c].wr \in {"queued", "sent", "failed"}
          /\ calls[c].wr \in {"sent", "failed"} => calls'[c].wr = calls[c].wr
          /\ calls[c].id # <<>> => calls'[c].id = calls[c].id
          /\ (calls[c].st = "rejected" /\ calls[c].wr = "none") => calls'[c].wr = "none"]_vars
  /\ [](requestId <= Len(calls))

\* the first request timed out after it was written, was not written again,
\* and the channel went on to answer the second
C30_Witness ==
  /\ Len(calls) = 2
  /\ calls[1].st = "rejected" /\ calls[1].out = <<"Request timeout">>
  /\ calls[1].wr = "sent" /\ calls[1].answers = 0
  /\ calls[2].st = "resolved" /\ calls[2].sock = calls[1].sock
  /\ requestId = 2

\* The has-content queries of item k that were answered with "has content".
FoundOccupied(k) ==
  {c \in BridgeCalls(k) : /\ calls[c].method = "clip.hasContent"
                           /\ calls[c].st = "resolved"
                           /\ calls[c].out.hasContent
                           /\ c # awaiting}

\* C31: with overwrite = false, batch_create_clips sends no clip.delete,
\* sends clip.create only for a slot that is empty when it is sent, and
\* no step of the batch takes a clip away; a targeted item whose slot was
\* reported to have content sends no clip.create and has the 'has content'
\* error entry.
C31_SafeCreation ==
  /\ [][(tool' = "batch_create_clips" /\ ~args'.overwrite) =>
          /\ backend.content \subseteq backend'.content
          /\ Len(calls') > Len(calls) =>
               /\ calls'[Len(calls')].method # "clip.delete"
               /\ calls'[Len(calls')].method = "clip.create" =>
                    ~SlotHasContent(backend, calls'[Len(calls')].arg.trackIndex,
                                    calls'[Len(calls')].arg.slotIndex)]_vars
  /\ [](\A k \in 1..MaxItems :
          (tool = "batch_create_clips" /\ ~args.overwrite /\ FoundOccupied(k) # {}) =>
            /\ \A c \in BridgeCalls(k) : calls[c].method # "clip.create"
            /\ \E e \in 1..Len(ErrorsSoFar) :
                 /\ ErrorsSoFar[e].index = k - 1
                 /\ ErrorsSoFar[e].error =
                      SlotHasContentError(args.clips[k].slotIndex, args.clips[k].trackIndex))

\* the targeted item found its slot occupied and failed, the item after it
\* was created in a free slot, and the clip that was there is still there
C31_Witness ==
  /\ tool = "batch_create_clips" /\ pc = "done" /\ ~args.overwrite
  /\ Len(args.clips) = 2
  /\ FoundOccupied(1) # {}
  /\ result.completed = 1 /\ result.failed = 1
  /\ <<"A", 0>> \in backend.content /\ Cardinality(backend.content) >= 2

\* The auto-find items of the batch (slotIndex left out) and the clip.create
\* commands sent for them.
AutoItems ==
  {k \in 1..Len(args.clips) : args.clips[k].slotIndex = Undefined}

AutoCreates == {c \in Commands : calls[c].method = "clip.create" /\ calls[c].owner[2] \in AutoItems}

\* The auto-find items before item k for which a slot was chosen.
PlacedBefore(k) == {j \in AutoItems : j < k /\ \E c \in AutoCreates : calls[c].owner[2] = j}

\* C32: in a batch_create_clips call with clips, every search of an
\* auto-find item starts one past the slot chosen for the latest auto-find
\* item before it that was given a slot, all auto-find items before the first
\* placement start at the same slot, and no two clip.create commands of
\* auto-find items name the same track and slot.
C32_CursorAdvance ==
  (tool = "batch_create_clips" /\ ~NoClips) =>
    /\ \A k \in AutoItems : \A q \in QueriesOf(k) :
         IF PlacedBefore(k) # {}
           THEN \E c \in AutoCreates :
                  /\ calls[c].owner[2] = CHOOSE j \in PlacedBefore(k) : \A i \in PlacedBefore(k) : i <= j
                  /\ calls[q].arg.startSlot = calls[c].arg.slotIndex + 1
           ELSE \A j \in AutoItems : \A p \in QueriesOf(j) :
                  (j <= k /\ PlacedBefore(j) = {}) => calls[p].arg.startSlot = calls[q].arg.startSlot
    /\ \A c, d \in AutoCreates :
         (calls[c].arg.trackIndex = calls[d].arg.trackIndex
          /\ calls[c].arg.slotIndex = calls[d].arg.slotIndex) => c = d

\* two auto-find items on the cursor track went to two slots, the second
\* although the create of the first was lost and its slot stayed free
C32_Witness ==
  /\ tool = "batch_create_clips" /\ pc = "done"
  /\ AutoItems = {1, 2}
  /\ Cardinality(AutoCreates) = 2
  /\ \E c, d \in AutoCreates :
       /\ c < d
       /\ calls[c].st = "rejected"
       /\ calls[d].st = "resolved"
       /\ calls[c].arg.trackIndex = calls[d].arg.trackIndex
       /\ calls[d].arg.slotIndex = calls[c].arg.slotIndex + 1
       /\ ~SlotHasContent(backend, calls[c].arg.trackIndex, calls[c].arg.slotIndex)

\* The clip.create commands of the call that the DAW answered with success.
SucceededCreates ==
  {c \in Commands : calls[c].method = "clip.create" /\ calls[c].st = "resolved"}

\* The createdClips of a result; the no-empty-slot result carries none.
ReturnedClips == IF "createdClips" \in DOMAIN result THEN result.createdClips ELSE <<>>

\* C33: when batch_create_clips returns its result, createdClips has one entry
\* for every clip.create command that succeeded, with the 1-based track and
\* slot of that command, and no other entry.
C33_CreatedExact ==
  (tool = "batch_create_clips" /\ pc = "done") =>
    /\ Len(ReturnedClips) = Cardinality(SucceededCreates)
    /\ \A c \in SucceededCreates :
         \E e \in 1..Len(ReturnedClips) :
           /\ ReturnedClips[e].trackIndex = toUser(calls[c].arg.trackIndex)
           /\ ReturnedClips[e].slotIndex = toUser(calls[c].arg.slotIndex)

\* The calls made on a client, and the clients whose pendingRequests a step
\* has changed.
CallsOn(client) == {c \in 1..Len(calls) : calls[c].owner = <<"client", client>>}

Touched ==
  {k \in 1..Len(clientObjects) :
     k > Len(clientObjects') \/ clientObjects'[k].pendingRequests # clientObjects[k].pendingRequests}

\* C34: every entry of a client's pendingRequests is a pending call made on
\* that client under that id; a call is settled only with what the backend of
\* its own client answered to its id, or by its own timeout; and a step
\* changes the pendingRequests of at most one client, the one it settles a
\* call of, when it settles any.
C34_ChannelIsolation ==
  /\ [](\A k \in 1..Len(clientObjects) :
          /\ \A id \in DOMAIN clientObjects[k].pendingRequests :
               /\ clientObjects[k].pendingRequests[id] \in CallsOn(k)
               /\ calls[clientObjects[k].pendingRequests[id]].id = id
               /\ calls[clientObjects[k].pendingRequests[id]].st = "pending"
          /\ \A c \in CallsOn(k) :
               /\ calls[c].st = "resolved" =>
                    calls[c].out = [from |-> clientObjects[k].dawType, echo |-> calls[c].id]
               /\ calls[c].st = "rejected" =>
                    calls[c].out \in {<<"err", clientObjects[k].dawType, calls[c].id>>,
                                      <<"Request timeout">>})
  /\ [][/\ Cardinality(Touched) <= 1
        /\ \A c \in 1..Len(calls) :
             calls'[c] # calls[c] => Touched = {calls[c].owner[2]}]_vars

\* both clients had a request with id 1 pending; the answer that came on the
\* Ableton connection settled the Ableton request and left the Bitwig one
C34_Witness ==
  /\ Len(clientObjects) = 2
  /\ \E a \in CallsOn(clients["ableton"]) : \E b \in CallsOn(clients["bitwig"]) :
       /\ calls[a].id = String(1) /\ calls[b].id = String(1)
       /\ calls[a].st = "resolved"
       /\ calls[a].out = [from |-> "ableton", echo |-> String(1)]
       /\ calls[b].st = "pending"
       /\ String(1) \in DOMAIN clientObjects[clients["bitwig"]].pendingRequests

\* The lines of a log as the stream had them, each with its newline.
RECURSIVE Framed(_)
Framed(log) ==
  IF log = <<>> THEN <<>> ELSE log[1].line \o <<LF>> \o Framed(Tail(log))

\* The bytes of the stream from the first one written: those of the lines
\* split off so far, those held in the buffer, those still in flight.
Wire == Encode(Framed(dataLog) \o buffer) \o inbound

\* C35: however the stream is cut into chunks, the lines split off are the
\* newline-terminated lines of the stream, in order and once each, and what
\* follows the last newline is in the buffer: a data event leaves the stream
\* made of the lines split off, the buffer and the bytes in flight as it was,
\* adds lines only at the end of the log, and every line that is not blank
\* is dispatched to the parser; the buffer and the lines hold no newline.
C35_Framing ==
  /\ [](/\ \A k \in 1..Len(buffer) : buffer[k] # LF
        /\ \A e \in 1..Len(dataLog) :
             /\ \A k \in 1..Len(dataLog[e].line) : dataLog[e].line[k] # LF
             /\ dataLog[e].outcome = "blank" <=> Trim(dataLog[e].line) = <<>>
             /\ dataLog[e].outcome \in {"blank", "caught", "handled"})
  /\ [][Len(inbound') < Len(inbound) =>
          /\ Wire' = Wire
          /\ Len(dataLog') >= Len(dataLog)
          /\ SubSeq(dataLog', 1, Len(dataLog)) = dataLog]_vars

\* The probes of the tool call a step has taken, and the DAWs whose probe
\* resolved.
NewProbes == {c \in (Len(calls) + 1)..Len(calls') : calls'[c].owner = <<"probe", toolCalls'>>}

NewlyAnswered == {calls'[c].arg.daw : c \in {p \in NewProbes : calls'[p].st = "resolved"}}

\* C36: a tool call that probes returns from the probing whatever the two
\* probes came to.  get_daws returns its summary, no error payload, and lists
\* as connected exactly the DAWs whose probe resolved; a call without a DAW
\* name reaches its handler with a DAW resolved from exactly those DAWs: the
\* only one whose probe resolved, the configured default otherwise.  A probe
\* that was refused, answered with an error or timed out is settled as
\* rejected and its DAW is not among them.
C36_ProbingNeverFails ==
  [][(toolCalls' = toolCalls + 1 /\ NewProbes # {}) =>
       /\ Cardinality(NewProbes) = 2
       /\ \A c \in NewProbes : calls'[c].st \in {"resolved", "rejected"}
       /\ IF tool' = "get_daws"
            THEN /\ pc' = "done"
                 /\ IsSuccessPayload(result')
                 /\ result'.connectedDaws = NewlyAnswered
                 /\ result'.connectedCount = Cardinality(NewlyAnswered)
            ELSE /\ pc' = "handler"
                 /\ daw' = IF Cardinality(NewlyAnswered) = 1
                             THEN CHOOSE d \in NewlyAnswered : TRUE
                             ELSE config.defaultDaw]_vars

\* get_daws returned with Bitwig's probe answered by an error response and
\* Ableton's probe refused: nothing connected
C36_Witness ==
  /\ tool = "get_daws" /\ pc = "done"
  /\ result.connectedDaws = {} /\ result.connectedCount = 0
  /\ \E b, a \in ProbesOf(1) :
       /\ calls[b].arg.daw = "bitwig" /\ calls[b].st = "rejected"
       /\ calls[b].out = <<"Internal error">>
       /\ calls[a].arg.daw = "ableton" /\ calls[a].st = "rejected"
       /\ calls[a].out = <<"connect ECONNREFUSED">>

\* The requests among the lines the extension has read, in order.
RECURSIVE RequestsRead(_)
RequestsRead(lines) ==
  IF lines = <<>> THEN <<>>
  ELSE IF Head(lines) \in RequestLines
    THEN <<[id |-> Head(lines)[2], method |-> Head(lines)[3]]>> \o RequestsRead(Tail(lines))
  ELSE RequestsRead(Tail(lines))

\* C37: once the extension has read every line written and run every task,
\* it has printed one response for each request line it read, in their
\* order, each with the id of its request and a result or an error.
C37_OneResponsePerRequest ==
  (extension.in = <<>> /\ extension.scheduled = <<>>) =>
    /\ Len(extension.out) = Len(RequestsRead(extension.read))
    /\ \A k \in 1..Len(extension.out) :
         /\ extension.out[k].id = RequestsRead(extension.read)[k].id
         /\ extension.out[k].kind \in {"result", "error"}

\* The call names exactly one of trackIndex and slotIndex.
OneIndexOnly(a) == (a.trackIndex = Undefined) # (a.slotIndex = Undefined)

\* C38: a note tool called with exactly one of trackIndex and slotIndex
\* starts by asking the backend for the selection, asks once, never sends
\* clip.select, never waits the selection delay, and sends no command that
\* carries a track or slot index: the index given appears in no request.
C38_PartialAddressing ==
  (tool \in NoteTools /\ OneIndexOnly(args)) =>
    /\ Selects = {}
    /\ pc # "selectionDelay"
    /\ \A c \in BatchCalls :
         /\ (\A d \in BatchCalls : c <= d) => calls[c].method = "clip.getSelection"
         /\ calls[c].method = "clip.getSelection" => \A d \in BatchCalls : c <= d
         /\ calls[c].arg # <<>> => DOMAIN calls[c].arg \cap {"trackIndex", "slotIndex"} = {}

\* batch_move_notes given slotIndex 3 only has moved the note in the clip
\* the backend reported as selected, without clip.select
C38_Witness ==
  /\ tool = "batch_move_notes" /\ pc = "done"
  /\ args.trackIndex = Undefined /\ args.slotIndex = 3
  /\ calls[1].method = "clip.getSelection" /\ calls[1].st = "resolved"
  /\ \E c \in Dependent : calls[c].method = "clip.moveNote" /\ calls[c].st = "resolved"
  /\ result.completed = 1

\* The sockets of the channel that are connecting or connected.
LiveSockets == {s \in 1..Len(sockets) : sockets[s].state \in {"connecting", "open"}}

\* C39: the channel has at most one socket that is connecting or connected,
\* this.socket is that socket whenever there is one, and the 'close' event of
\* a socket that is no longer this.socket leaves this.socket as it is.
C39_SingleConnection ==
  /\ [](/\ Cardinality(LiveSockets) <= 1
        /\ \A s \in LiveSockets : socket = s)
  /\ [][\A s \in 1..Len(sockets) :
          (sockets[s].state = "destroyed" /\ sockets'[s].state = "closed" /\ socket # s) =>
            socket' = socket]_vars

\* The notes the call selects among those getNotes returned, and the clip
\* the call is to leave: the selected notes `semitones` higher, the others
\* where they were.
SelectedNotes == {<<n.x, n.y>> : n \in {loc.notesToMove[k] : k \in 1..Len(loc.notesToMove)}}

AllNotes == {<<n.x, n.y>> : n \in {loc.notes[k] : k \in 1..Len(loc.notes)}}

Transposed == (AllNotes \ SelectedNotes) \cup {<<n[1], n[2] + args.semitones>> : n \in SelectedNotes}

\* C40: when transpose_range has found notes to move and returned with
\* failed = 0, the clip holds every note it had in the range (and of the
\* pitch, when one is given) `semitones` higher and every other note where
\* it was.
C40_TransposeResult ==
  (/\ tool = "transpose_range" /\ pc = "done"
   /\ "notesFound" \in DOMAIN result /\ result.failed = 0) =>
    backend.notes = Transposed
====
